---------------------------- MODULE Spec2Model ----------------------------
(***************************************************************************)
(* Real-time CPU manager of the kubelet: the RtState store                 *)
(* (pkg/kubelet/cm/cpumanager/state/rt_state.go) and the real-time policy  *)
(* (policy_realtime.go, kept as src/unnamed/part_003).                     *)
(*                                                                         *)
(* Utilisations are float64 in the source.  The model computes them in     *)
(* exact fixed-point units of 1/UtilScale, and draws period/runtime pairs  *)
(* whose quotient is a whole number of units, so that no rounding of the   *)
(* model's own is introduced.  float64 rounding itself is not modelled.    *)
(***************************************************************************)
EXTENDS Integers, Sequences, FiniteSets, TLC

(***************************************************************************)
(* Bounds of the model.                                                    *)
(***************************************************************************)
NumCPUs == 3
MaxReqCpus == 2
UtilScale == 20
\* The largest quantity of a resource in a container's requests or limits.
MaxQuantity == 2

\* p.topology.CPUDetails.CPUs(): the logical CPUs of the node.
TopologyCPUs == 0 .. (NumCPUs - 1)

\* Container ids: opaque strings in the source.
Containers == {"c1", "c2"}

\* realTimePolicy.allocableRtUtil, in units (0.95 when UtilScale = 20).
allocableRtUtil == UtilScale - 1

\* Values of the requests cpu-rt-period, cpu-rt-runtime and cpu-rt-cpu that
\* rtRequests reads off a container.  The runtimes are 1/4 and 7/10 of
\* UtilScale, so that two requests can add up to allocableRtUtil + 1 unit
\* and to exactly allocableRtUtil - 0 (5 + 14 = 19 when UtilScale = 20).
RtPeriods == {0, UtilScale}
RtRuntimes == {0, UtilScale \div 4, (7 * UtilScale) \div 10}
RtCpuCounts == 0 .. MaxReqCpus

(***************************************************************************)
(* Go maps as functions with a finite domain.                              *)
(***************************************************************************)
EmptyMap == [x \in {} |-> 0]

\* m[k] of a Go map of numbers: the zero value when the key is absent.
MapGet(m, k) == IF k \in DOMAIN m THEN m[k] ELSE 0

MapPut(m, k, v) == [x \in (DOMAIN m) \cup {k} |-> IF x = k THEN v ELSE m[x]]

MapDel(m, k) == [x \in (DOMAIN m) \ {k} |-> m[x]]

Max(a, b) == IF a >= b THEN a ELSE b

\* The orders in which a Go `range` may visit the keys of a map: any.
RECURSIVE IterationOrders(_)
IterationOrders(S) ==
    IF S = {}
    THEN {<< >>}
    ELSE UNION {{<<x>> \o rest : rest \in IterationOrders(S \ {x})} : x \in S}

(***************************************************************************)
(* state.State: the checkpoint-backed store RtState wraps.  A store is a   *)
(* record [assignments, defaultCPUSet]; RtState adds containerToUtil and   *)
(* cpuToUtil.                                                              *)
(***************************************************************************)
State_GetCPUSet(s, containerID) ==
    IF containerID \in DOMAIN s.assignments
    THEN [ok |-> TRUE, set |-> s.assignments[containerID]]
    ELSE [ok |-> FALSE, set |-> {}]

State_GetCPUSetOrDefault(s, containerID) ==
    IF containerID \in DOMAIN s.assignments
    THEN s.assignments[containerID]
    ELSE s.defaultCPUSet

State_SetCPUSet(s, containerID, set) ==
    [s EXCEPT !.assignments = MapPut(s.assignments, containerID, set)]

State_Delete(s, containerID) ==
    [s EXCEPT !.assignments = MapDel(s.assignments, containerID)]

State_SetDefaultCPUSet(s, set) ==
    [s EXCEPT !.defaultCPUSet = set]

(***************************************************************************)
(* RtState (rt_state.go).  Every operation returns [st, err]: the state    *)
(* it leaves and "nil", or "panic" with the state at the panic.            *)
(***************************************************************************)
NewRtState(defaultCPUSet, assignments) ==
    [assignments     |-> assignments,
     defaultCPUSet   |-> defaultCPUSet,
     containerToUtil |-> EmptyMap,
     cpuToUtil       |-> [cpu \in defaultCPUSet |-> 0]]

GetRtCPUSetAndUtilOfContainer(s, containerID) ==
    IF ~State_GetCPUSet(s, containerID).ok
    THEN [ok |-> FALSE, set |-> {}, util |-> 0]
    ELSE IF containerID \notin DOMAIN s.containerToUtil
         THEN [ok |-> FALSE, set |-> {}, util |-> 0]
         ELSE [ok   |-> TRUE,
               set  |-> State_GetCPUSet(s, containerID).set,
               util |-> s.containerToUtil[containerID]]

\* for _, cpu := range set.ToSliceNoSort() { m[cpu] += delta }
AddUtilOnCpus(m, set, delta) ==
    [cpu \in (DOMAIN m) \cup set |->
        IF cpu \in set THEN MapGet(m, cpu) + delta ELSE m[cpu]]

\* for _, cpu := range set { m[cpu] -= util; if m[cpu] < 0 { m[cpu] = 0 } }
SubUtilOnCpusClamped(m, set, util) ==
    [cpu \in (DOMAIN m) \cup set |->
        IF cpu \in set THEN Max(MapGet(m, cpu) - util, 0) ELSE m[cpu]]

\* A set that does not first take the container's old utilisation off the
\* CPUs of its old set.
SetRt_NoCleanOfOldSet(s, containerID, set, util) ==
    [st  |-> [State_SetCPUSet(s, containerID, set) EXCEPT
                !.containerToUtil = MapPut(s.containerToUtil, containerID, util),
                !.cpuToUtil = AddUtilOnCpus(s.cpuToUtil, set, util)],
     err |-> "nil"]

SetRtCPUSetAndUtilOfContainer(s, containerID, set, util) ==
    LET had     == containerID \in DOMAIN s.containerToUtil
        old     == State_GetCPUSet(s, containerID)
        cleaned == IF had
                   THEN AddUtilOnCpus(s.cpuToUtil, old.set,
                                      0 - s.containerToUtil[containerID])
                   ELSE s.cpuToUtil
        s1      == State_SetCPUSet(s, containerID, set)
    IN  IF had /\ ~old.ok
        THEN [st |-> s, err |-> "panic"]
        ELSE [st  |-> [s1 EXCEPT
                         !.containerToUtil = MapPut(s.containerToUtil, containerID, util),
                         !.cpuToUtil = AddUtilOnCpus(cleaned, set, util)],
              err |-> "nil"]

\* A Delete that forgets the container's share of its CPUs.
RtState_Delete_NoSubtract(s, containerID) ==
    IF ~State_GetCPUSet(s, containerID).ok
    THEN [st |-> s, err |-> "panic"]
    ELSE [st  |-> [State_Delete(s, containerID) EXCEPT
                     !.containerToUtil = MapDel(s.containerToUtil, containerID)],
          err |-> "nil"]

RtState_Delete(s, containerID) ==
    LET rt == GetRtCPUSetAndUtilOfContainer(s, containerID)
    IN  IF ~State_GetCPUSet(s, containerID).ok
        THEN [st |-> s, err |-> "panic"]
        ELSE IF ~rt.ok
             THEN [st |-> State_Delete(s, containerID), err |-> "nil"]
             ELSE [st  |-> [State_Delete(s, containerID) EXCEPT
                              !.cpuToUtil = SubUtilOnCpusClamped(s.cpuToUtil, rt.set, rt.util),
                              !.containerToUtil = MapDel(s.containerToUtil, containerID)],
                   err |-> "nil"]

CpuToUtilMap(s) == [cpu \in DOMAIN s.cpuToUtil |-> s.cpuToUtil[cpu]]

\* A SetDefaultCPUSet that keeps the utilisation of the CPUs it retains.
RtState_SetDefaultCPUSet_KeepUtil(s, set) ==
    [State_SetDefaultCPUSet(s, set) EXCEPT
        !.cpuToUtil = [cpu \in set |-> MapGet(s.cpuToUtil, cpu)]]

RtState_SetDefaultCPUSet(s, set) ==
    [State_SetDefaultCPUSet(s, set) EXCEPT !.cpuToUtil = [cpu \in set |-> 0]]


(***************************************************************************)
(* The real-time policy (src/unnamed/part_003, lines 1-245).               *)
(***************************************************************************)

\* reqUtil of AddContainer: float64(reqRuntime) / float64(reqPeriod), or 0
\* when the period is 0.
ReqUtil(reqPeriod, reqRuntime) ==
    IF reqPeriod # 0 THEN (reqRuntime * UtilScale) \div reqPeriod ELSE 0

\* The requests a container may carry: those whose utilisation is a whole
\* number of units (see the module's head).
RtRequests ==
    {r \in [period : RtPeriods, runtime : RtRuntimes, cpus : RtCpuCounts] :
        r.period = 0 \/ (r.runtime * UtilScale) % r.period = 0}

\* sort.SliceStable(fits, func(i, j) { return fits[i].score > fits[j].score }):
\* the elements by descending score, elements of equal score keeping the
\* order they had.  score maps an element to its score.  The head goes
\* behind the elements of the sorted tail that score more and before the
\* others, which came after it.
RECURSIVE SliceStable(_, _)
SliceStable(seq, score) ==
    IF seq = << >>
    THEN << >>
    ELSE LET x    == Head(seq)
             rest == SliceStable(Tail(seq), score)
         IN  SelectSeq(rest, LAMBDA c : score[c] > score[x])
             \o << x >>
             \o SelectSeq(rest, LAMBDA c : score[c] <= score[x])

\* score := p.allocableRtUtil - util - reqUtil
Score(cpuToUtil, cpu, reqUtil) == allocableRtUtil - cpuToUtil[cpu] - reqUtil

\* A worstFit that admits a CPU the request fills exactly to the ceiling
\* (score >= 0).
worstFit_AdmitAtCeiling(order, cpuToUtil, reqUtil, reqCpus) ==
    LET scoredCpus == SelectSeq(order, LAMBDA cpu : Score(cpuToUtil, cpu, reqUtil) >= 0)
        sorted == SliceStable(scoredCpus,
                      [cpu \in DOMAIN cpuToUtil |-> Score(cpuToUtil, cpu, reqUtil)])
    IN  IF Len(scoredCpus) < reqCpus
        THEN << >>
        ELSE SubSeq(sorted, 1, reqCpus)

\* A worstFit that scores a CPU by its free share alone, forgetting what the
\* request adds.
worstFit_IgnoreRequest(order, cpuToUtil, reqUtil, reqCpus) ==
    LET scoredCpus == SelectSeq(order, LAMBDA cpu : Score(cpuToUtil, cpu, 0) > 0)
        sorted == SliceStable(scoredCpus,
                      [cpu \in DOMAIN cpuToUtil |-> Score(cpuToUtil, cpu, 0)])
    IN  IF Len(scoredCpus) < reqCpus
        THEN << >>
        ELSE SubSeq(sorted, 1, reqCpus)

\* A worstFit that takes the fitting CPUs in the order it met them, without
\* sorting them by score.
worstFit_NoSort(order, cpuToUtil, reqUtil, reqCpus) ==
    LET scoredCpus == SelectSeq(order, LAMBDA cpu : Score(cpuToUtil, cpu, reqUtil) > 0)
    IN  IF Len(scoredCpus) < reqCpus
        THEN << >>
        ELSE SubSeq(scoredCpus, 1, reqCpus)

\* A worstFit that hands back every fitting CPU once enough of them fit,
\* without cutting the list to reqCpus.
worstFit_AllFitting(order, cpuToUtil, reqUtil, reqCpus) ==
    LET scoredCpus == SelectSeq(order, LAMBDA cpu : Score(cpuToUtil, cpu, reqUtil) > 0)
        sorted == SliceStable(scoredCpus,
                      [cpu \in DOMAIN cpuToUtil |-> Score(cpuToUtil, cpu, reqUtil)])
    IN  IF Len(scoredCpus) < reqCpus
        THEN << >>
        ELSE sorted

\* worstFit, given the order in which `range cpuToUtil` visits the map.
\* The result is the sequence fittingCpus; nil is the empty sequence.
worstFit(order, cpuToUtil, reqUtil, reqCpus) ==
    LET scoredCpus == SelectSeq(order, LAMBDA cpu : Score(cpuToUtil, cpu, reqUtil) > 0)
        sorted == SliceStable(scoredCpus,
                      [cpu \in DOMAIN cpuToUtil |-> Score(cpuToUtil, cpu, reqUtil)])
    IN  IF Len(scoredCpus) < reqCpus
        THEN << >>
        ELSE SubSeq(sorted, 1, reqCpus)

\* firstFit's loop over `range cpuToUtil`: the CPUs still to visit and the
\* fittingCpus gathered so far.  The loop breaks when an append brings the
\* length to reqCpus, and at no other point.
RECURSIVE firstFitLoop(_, _, _, _, _)
firstFitLoop(order, cpuToUtil, reqUtil, reqCpus, fittingCpus) ==
    IF order = << >>
    THEN fittingCpus
    ELSE IF cpuToUtil[Head(order)] + reqUtil < allocableRtUtil
         THEN IF Len(fittingCpus) + 1 = reqCpus
              THEN Append(fittingCpus, Head(order))
              ELSE firstFitLoop(Tail(order), cpuToUtil, reqUtil, reqCpus,
                                Append(fittingCpus, Head(order)))
         ELSE firstFitLoop(Tail(order), cpuToUtil, reqUtil, reqCpus, fittingCpus)

\* firstFit, given the order in which `range cpuToUtil` visits the map.
firstFit(order, cpuToUtil, reqUtil, reqCpus) ==
    LET fittingCpus == firstFitLoop(order, cpuToUtil, reqUtil, reqCpus, << >>)
    IN  IF Len(fittingCpus) < reqCpus
        THEN << >>
        ELSE fittingCpus

\* sort.SliceStable(fits, func(i, j) { return fits[i].score < fits[j].score }):
\* the elements by ascending score, elements of equal score keeping the
\* order they had.
RECURSIVE SliceStableAscending(_, _)
SliceStableAscending(seq, score) ==
    IF seq = << >>
    THEN << >>
    ELSE LET x    == Head(seq)
             rest == SliceStableAscending(Tail(seq), score)
         IN  SelectSeq(rest, LAMBDA c : score[c] < score[x])
             \o << x >>
             \o SelectSeq(rest, LAMBDA c : score[c] >= score[x])

\* bestFit, given the order in which `range cpuToUtil` visits the map.
bestFit(order, cpuToUtil, reqUtil, reqCpus) ==
    LET scoredCpus == SelectSeq(order, LAMBDA cpu : Score(cpuToUtil, cpu, reqUtil) > 0)
        sorted == SliceStableAscending(scoredCpus,
                      [cpu \in DOMAIN cpuToUtil |-> Score(cpuToUtil, cpu, reqUtil)])
    IN  IF Len(scoredCpus) < reqCpus
        THEN << >>
        ELSE SubSeq(sorted, 1, reqCpus)

\* cpuset.NewCPUSet(cpus...)
NewCPUSet(cpus) == {cpus[i] : i \in DOMAIN cpus}

\* The number of CPUs the operator reserves for the system.
NumReservedCPUs == 1

\* takeByTopology(topology, allCPUs, numReservedCPUs): CPUs of the
\* low-numbered cores first; one core per CPU here, so the lowest CPUs.
takeByTopology(allCPUs, numCPUs) ==
    {cpu \in allCPUs : Cardinality({c \in allCPUs : c < cpu}) < numCPUs}

\* The local variable reserved of NewRealTimePolicy: the CPUs the operator
\* named, or else those takeByTopology picks.
Reserved(numReservedCPUs, reservedCPUs) ==
    IF Cardinality(reservedCPUs) > 0
    THEN reservedCPUs
    ELSE takeByTopology(TopologyCPUs, numReservedCPUs)

\* NewRealTimePolicy: the fields of the policy that concern the reservation.
\* The field reservedCpus takes the argument, not the local variable.
NewRealTimePolicy(numReservedCPUs, reservedCPUs) ==
    IF Cardinality(Reserved(numReservedCPUs, reservedCPUs)) # numReservedCPUs
    THEN [err |-> "panic", numReservedCpus |-> numReservedCPUs, reservedCpus |-> {}]
    ELSE [err |-> "nil", numReservedCpus |-> numReservedCPUs, reservedCpus |-> reservedCPUs]

\* assignableCPUs, which no other function of the policy calls.
assignableCPUs(p, s) == s.defaultCPUSet \ p.reservedCpus

\* The reservations the policy is built with: the operator names the
\* highest CPUs, or names none.
ReservedCPUsArgs == {{}, {cpu \in TopologyCPUs : cpu >= NumCPUs - NumReservedCPUs}}

\* An initState that resets the default CPU set and keeps the assignments.
initState_KeepAssignments(s) ==
    [st |-> RtState_SetDefaultCPUSet(s, TopologyCPUs), err |-> "nil"]

realTimePolicy_initState(s) ==
    LET assignments == s.assignments
        s1 == RtState_SetDefaultCPUSet(s, TopologyCPUs)
        \* for containerID := range assignments { s.Delete(containerID) }:
        \* the deletions touch different containers, and the clamped
        \* subtractions on a CPU end at the same value in any order.
        DeleteAll[ids \in SUBSET (DOMAIN assignments)] ==
            IF ids = {}
            THEN s1
            ELSE LET id == CHOOSE x \in ids : TRUE
                 IN  RtState_Delete(DeleteAll[ids \ {id}], id).st
    IN  [st |-> DeleteAll[DOMAIN assignments], err |-> "nil"]

\* An AddContainer that commits whatever worstFit returned, without the
\* test len(cpus) < reqCpus.
AddContainer_NoFitCheck(s, req, containerID, order) ==
    LET reqUtil == ReqUtil(req.period, req.runtime)
        cpus    == worstFit(order, CpuToUtilMap(s), reqUtil, req.cpus)
    IN  IF reqUtil = 0
        THEN [st |-> s, err |-> "nil"]
        ELSE IF GetRtCPUSetAndUtilOfContainer(s, containerID).ok
             THEN [st |-> s, err |-> "nil"]
             ELSE SetRtCPUSetAndUtilOfContainer(s, containerID, NewCPUSet(cpus), reqUtil)

\* An AddContainer that places a container again although it is assigned.
AddContainer_NoAlreadyAssignedCheck(s, req, containerID, order) ==
    LET reqUtil == ReqUtil(req.period, req.runtime)
        cpus    == worstFit(order, CpuToUtilMap(s), reqUtil, req.cpus)
    IN  IF reqUtil = 0
        THEN [st |-> s, err |-> "nil"]
        ELSE IF Len(cpus) < req.cpus
             THEN [st |-> s, err |-> "doesNotFit"]
             ELSE SetRtCPUSetAndUtilOfContainer(s, containerID, NewCPUSet(cpus), reqUtil)

\* An AddContainer without the test reqUtil == 0.
AddContainer_NoZeroUtilCheck(s, req, containerID, order) ==
    LET reqUtil == ReqUtil(req.period, req.runtime)
        cpus    == worstFit(order, CpuToUtilMap(s), reqUtil, req.cpus)
    IN  IF GetRtCPUSetAndUtilOfContainer(s, containerID).ok
        THEN [st |-> s, err |-> "nil"]
        ELSE IF Len(cpus) < req.cpus
             THEN [st |-> s, err |-> "doesNotFit"]
             ELSE SetRtCPUSetAndUtilOfContainer(s, containerID, NewCPUSet(cpus), reqUtil)

realTimePolicy_AddContainer(s, req, containerID, order) ==
    LET reqUtil == ReqUtil(req.period, req.runtime)
        cpus    == worstFit(order, CpuToUtilMap(s), reqUtil, req.cpus)
    IN  IF reqUtil = 0
        THEN [st |-> s, err |-> "nil"]
        ELSE IF GetRtCPUSetAndUtilOfContainer(s, containerID).ok
             THEN [st |-> s, err |-> "nil"]
             ELSE IF Len(cpus) < req.cpus
                  THEN [st |-> s, err |-> "doesNotFit"]
                  ELSE SetRtCPUSetAndUtilOfContainer(s, containerID, NewCPUSet(cpus), reqUtil)

\* A RemoveContainer that drops the CPU set from the wrapped store only.
RemoveContainer_StoreOnly(s, containerID) ==
    IF ~GetRtCPUSetAndUtilOfContainer(s, containerID).ok
    THEN [st |-> s, err |-> "nil"]
    ELSE [st |-> State_Delete(s, containerID), err |-> "nil"]

\* A RemoveContainer that releases some container holding a real-time
\* assignment, whichever id it was called for.
RemoveContainer_AnyAssigned(s, containerID) ==
    LET assigned == {c \in Containers : GetRtCPUSetAndUtilOfContainer(s, c).ok}
    IN  IF assigned = {}
        THEN [st |-> s, err |-> "nil"]
        ELSE RtState_Delete(s, CHOOSE c \in assigned : TRUE)

realTimePolicy_RemoveContainer(s, containerID) ==
    IF ~GetRtCPUSetAndUtilOfContainer(s, containerID).ok
    THEN [st |-> s, err |-> "nil"]
    ELSE RtState_Delete(s, containerID)

(***************************************************************************)
(* The state machine.                                                      *)
(*   rts     the RtState: [assignments, defaultCPUSet, containerToUtil,    *)
(*           cpuToUtil]                                                    *)
(*   started whether the policy's Start has run on rts                     *)
(*   last    the last call made: its name, arguments and result, and what  *)
(*           the caller knew before it: whether it repeats the call before *)
(*           it (again), whether the container had a real-time assignment  *)
(*           (hadRt), how many containers had a CPU set (nAssigned)        *)
(*   mgr     the manager: the holder of its mutex, and each thread's       *)
(*           position and local variables                                  *)
(*   pure    the last call of a function without state                     *)
(*   hook    the last call of a hook of the container lifecycle            *)
(***************************************************************************)
VARIABLES rts, started, last, mgr, pure, hook

vars == <<rts, started, last, mgr, pure, hook>>

\* hook holds the last call of a hook of the container lifecycle: its name,
\* its arguments, the feature gates it found, the calls and the file writes
\* it made, each with its outcome, and the error it returned.
NoHook == [op |-> "none", id |-> "", req |-> [period |-> 0, runtime |-> 0, cpus |-> 0],
           cpuGate |-> FALSE, topoGate |-> FALSE, steps |-> << >>, err |-> "nil"]

\* pure holds the call of a function that has no state (GetPodQOS, the
\* scorer): its name, its argument, its result.
NoPure == [op |-> "none", arg |-> << >>, res |-> << >>]

\* The threads that use the manager: kubelet workers that call AddContainer
\* and RemoveContainer, and the goroutine that Start launches for
\* reconcileState.
Callers == {"t1"}
Threads == Callers \cup {"rec"}

NoLocals == [id |-> "", req |-> [period |-> 0, runtime |-> 0, cpus |-> 0],
             cpus |-> {}, err |-> "nil"]

\* The manager after NewManager: the mutex free, no call in progress.
NewManager ==
    [lock |-> "free",
     pc   |-> [t \in Threads |-> "idle"],
     loc  |-> [t \in Threads |-> NoLocals],
     work |-> << >>]

\* What a checkpoint may hold when the kubelet starts: nothing (a first
\* start), or the CPU sets of containers of an earlier run.
CheckpointStates ==
    {[defaultCPUSet |-> {}, assignments |-> EmptyMap]}
    \cup
    {[defaultCPUSet |-> TopologyCPUs, assignments |-> a] :
        a \in UNION {[D -> (SUBSET TopologyCPUs) \ {{}}] :
                        D \in {X \in SUBSET Containers : Cardinality(X) <= 1}}}

NoCall == [op |-> "none", id |-> "", set |-> {}, util |-> 0,
           req |-> [period |-> 0, runtime |-> 0, cpus |-> 0], err |-> "nil",
           again |-> FALSE, hadRt |-> FALSE, nAssigned |-> 0,
           ready |-> FALSE, pods |-> << >>]

SameCall(a, b) ==
    /\ a.op = b.op
    /\ a.id = b.id
    /\ a.set = b.set
    /\ a.util = b.util
    /\ a.req = b.req

Init ==
    /\ \E c \in CheckpointStates : rts = NewRtState(c.defaultCPUSet, c.assignments)
    /\ started = FALSE
    /\ last = NoCall
    /\ mgr = NewManager
    /\ pure = NoPure
    /\ hook = NoHook

\* A panic nobody recovers ends the process.
Alive == last.err # "panic"

Returns(res, call) ==
    /\ rts' = res.st
    /\ last' = [call EXCEPT
                   !.err = res.err,
                   !.again = SameCall(call, last),
                   !.hadRt = GetRtCPUSetAndUtilOfContainer(rts, call.id).ok,
                   !.nAssigned = Cardinality(DOMAIN rts.assignments)]

\* The utilisations handed to the RtState when it is driven directly.
SetUtils == {ReqUtil(r.period, r.runtime) : r \in RtRequests}

CallSet(id, set, util) ==
    /\ Alive
    /\ Returns(SetRtCPUSetAndUtilOfContainer(rts, id, set, util),
               [NoCall EXCEPT !.op = "Set", !.id = id, !.set = set, !.util = util])
    /\ UNCHANGED <<started, mgr, pure, hook>>

CallDelete(id) ==
    /\ Alive
    /\ Returns(RtState_Delete(rts, id), [NoCall EXCEPT !.op = "Delete", !.id = id])
    /\ UNCHANGED <<started, mgr, pure, hook>>

CallSetDefaultCPUSet(set) ==
    /\ Alive
    /\ Returns([st |-> RtState_SetDefaultCPUSet(rts, set), err |-> "nil"],
               [NoCall EXCEPT !.op = "SetDefaultCPUSet", !.set = set])
    /\ UNCHANGED <<started, mgr, pure, hook>>

\* realTimePolicy.Start
CallStart ==
    /\ Alive
    /\ Returns(realTimePolicy_initState(rts), [NoCall EXCEPT !.op = "Start"])
    /\ started' = TRUE
    /\ UNCHANGED <<mgr, pure, hook>>

\* The orders in which `range cpuToUtil` may visit a map that has an entry
\* for every CPU of the topology, as it has once Start has run.
TopologyOrders == IterationOrders(TopologyCPUs)

\* The orders in which worstFit's `range cpuToUtil` may run in this call;
\* one stands for all of them when the call returns before worstFit.
RangeOrders(s, req, id) ==
    LET orders == IF DOMAIN s.cpuToUtil = TopologyCPUs
                  THEN TopologyOrders
                  ELSE IterationOrders(DOMAIN s.cpuToUtil)
    IN  IF ReqUtil(req.period, req.runtime) = 0 \/ GetRtCPUSetAndUtilOfContainer(s, id).ok
        THEN {CHOOSE order \in orders : TRUE}
        ELSE orders

CallAddContainer(id, req) ==
    /\ Alive
    /\ started
    /\ \E order \in RangeOrders(rts, req, id) :
          Returns(realTimePolicy_AddContainer(rts, req, id, order),
                  [NoCall EXCEPT !.op = "AddContainer", !.id = id, !.req = req])
    /\ UNCHANGED <<started, mgr, pure, hook>>

CallRemoveContainer(id) ==
    /\ Alive
    /\ started
    /\ Returns(realTimePolicy_RemoveContainer(rts, id),
               [NoCall EXCEPT !.op = "RemoveContainer", !.id = id])
    /\ UNCHANGED <<started, mgr, pure, hook>>

\* The RtState driven by set and Delete alone.
NextSetDelete ==
    \/ \E id \in Containers, set \in SUBSET TopologyCPUs, util \in SetUtils :
          CallSet(id, set, util)
    \/ \E id \in Containers : CallDelete(id)

SpecSetDelete == Init /\ [][NextSetDelete]_vars

\* The RtState driven by all of its mutators and by the policy's Start.
\* SetDefaultCPUSet leaves cpuToUtil unrelated to the assignments, so the
\* states multiply: one utilisation is handed to set here, and the CPU sets
\* are the sets of the first k CPUs and the last CPU alone.
RtStateUtils == {UtilScale \div 4}
RtStateCpuSets == {0 .. (k - 1) : k \in 0 .. NumCPUs} \cup {{NumCPUs - 1}}

NextRtState ==
    \/ \E id \in Containers, set \in RtStateCpuSets, util \in RtStateUtils :
          CallSet(id, set, util)
    \/ \E id \in Containers : CallDelete(id)
    \/ \E set \in RtStateCpuSets : CallSetDefaultCPUSet(set)
    \/ CallStart

SpecRtState == Init /\ [][NextRtState]_vars

\* The RtState driven by the real-time policy.
NextPolicy ==
    \/ CallStart
    \/ \E id \in Containers, req \in RtRequests : CallAddContainer(id, req)
    \/ \E id \in Containers : CallRemoveContainer(id)

SpecPolicy == Init /\ [][NextPolicy]_vars

\* The real-time policy handed, besides the requests above, a runtime of
\* the whole period: a utilisation of 1, which rtRequests reads off a
\* container as it reads any other.
AnyRtRequests ==
    RtRequests
    \cup {[period |-> UtilScale, runtime |-> UtilScale, cpus |-> n] : n \in RtCpuCounts}

NextPolicyAnyRequest ==
    \/ CallStart
    \/ \E id \in Containers, req \in AnyRtRequests : CallAddContainer(id, req)
    \/ \E id \in Containers : CallRemoveContainer(id)

SpecPolicyAnyRequest == Init /\ [][NextPolicyAnyRequest]_vars

(***************************************************************************)
(* The manager (cpu_manager.go): one mutex, caller threads and the         *)
(* reconcile goroutine.  A step is what a thread does between two points   *)
(* where another thread can run: taking the mutex, a section under the     *)
(* mutex up to its Unlock, a read of the state made without the mutex, a   *)
(* call of the runtime.                                                    *)
(***************************************************************************)

\* The requests a container's spec may carry, by container: c1 is not
\* real-time or asks for 0.7 of each of MaxReqCpus CPUs; c2 asks for the
\* same, or for a quarter of a CPU on no CPU at all.
ManagerRequests(id) ==
    {r \in RtRequests :
        \/ id = "c1" /\ r.runtime = 0 /\ r.period = 0 /\ r.cpus = 1
        \/ r.runtime = (7 * UtilScale) \div 10 /\ r.period # 0 /\ r.cpus = MaxReqCpus
        \/ id = "c2" /\ r.runtime = UtilScale \div 4 /\ r.period # 0 /\ r.cpus = 0}

\* The holder of the mutex when AddContainer calls the runtime, had it kept
\* the mutex across the call.
lockAcrossRPC_Held(t) == t

\* m.Unlock() of AddContainer before updateContainerCPUSet: the holder of
\* the mutex during the runtime call.
lockAcrossRPC(t) == "free"

\* A rollback that leaves the state as the policy's AddContainer made it.
rollback_Skipped(s, containerID) == s

\* The rollback of AddContainer: m.policy.RemoveContainer(m.state, containerID).
rollback(s, containerID) == realTimePolicy_RemoveContainer(s, containerID).st

\* The pc a thread goes to when its AddContainer returns: the reconcile
\* loop called it for a container, a caller thread is done.
AfterAdd(t) == IF t = "rec" THEN "rec_afterAdd" ELSE "idle"

\* An AddContainer that returns without the Unlock of the path it
\* returns on.
AddReturns_KeepLock(t, err, lock) ==
    /\ mgr' = [mgr EXCEPT !.pc[t] = AfterAdd(t),
                          !.loc[t] = IF t = "rec"
                                     THEN [mgr.loc[t] EXCEPT !.err = err]
                                     ELSE NoLocals]
    /\ last' = [NoCall EXCEPT !.op = "manager.AddContainer",
                              !.id = mgr.loc[t].id,
                              !.req = mgr.loc[t].req,
                              !.err = err,
                              !.hadRt = GetRtCPUSetAndUtilOfContainer(rts, mgr.loc[t].id).ok]

\* manager.AddContainer returns err to thread t.
AddReturns(t, err, lock) ==
    /\ mgr' = [mgr EXCEPT !.lock = lock,
                          !.pc[t] = AfterAdd(t),
                          !.loc[t] = IF t = "rec"
                                     THEN [mgr.loc[t] EXCEPT !.err = err]
                                     ELSE NoLocals]
    /\ last' = [NoCall EXCEPT !.op = "manager.AddContainer",
                              !.id = mgr.loc[t].id,
                              !.req = mgr.loc[t].req,
                              !.err = err,
                              !.hadRt = GetRtCPUSetAndUtilOfContainer(rts, mgr.loc[t].id).ok]

\* A caller thread enters AddContainer(p, c, containerID).
EnterAddContainer(t, id, req) ==
    /\ Alive
    /\ started
    /\ mgr.pc[t] = "idle"
    /\ mgr' = [mgr EXCEPT !.pc[t] = "add_lock",
                          !.loc[t] = [NoLocals EXCEPT !.id = id, !.req = req]]
    /\ last' = NoCall
    /\ UNCHANGED <<rts, started, pure, hook>>

\* m.Lock() at the head of AddContainer.
AddContainer_Lock(t) ==
    /\ mgr.pc[t] = "add_lock"
    /\ mgr.lock = "free"
    /\ mgr' = [mgr EXCEPT !.lock = t, !.pc[t] = "add_policy"]
    /\ last' = NoCall
    /\ UNCHANGED <<rts, started, pure, hook>>

\* Under the mutex: policy.AddContainer; on an error Unlock and return it;
\* else read the CPU set back, Unlock, and go on to the runtime call unless
\* the CPU set is empty.
AddContainer_Policy(t) ==
    /\ mgr.pc[t] = "add_policy"
    /\ \E order \in RangeOrders(rts, mgr.loc[t].req, mgr.loc[t].id) :
          LET res  == realTimePolicy_AddContainer(rts, mgr.loc[t].req, mgr.loc[t].id, order)
              cpus == State_GetCPUSetOrDefault(res.st, mgr.loc[t].id)
          IN  /\ rts' = res.st
              /\ IF res.err # "nil"
                 THEN AddReturns(t, res.err, "free")
                 ELSE IF cpus = {}
                      THEN AddReturns(t, "nil", "free")
                      ELSE /\ mgr' = [mgr EXCEPT !.lock = lockAcrossRPC(t),
                                                 !.pc[t] = "add_rpc",
                                                 !.loc[t].cpus = cpus]
                           /\ last' = NoCall
    /\ UNCHANGED <<started, pure, hook>>

\* m.updateContainerCPUSet(containerID, cpus): the runtime answers nil or an
\* error.
AddContainer_RPC(t, rpcOk) ==
    /\ mgr.pc[t] = "add_rpc"
    /\ IF rpcOk
       THEN AddReturns(t, "nil", mgr.lock)
       ELSE /\ mgr' = [mgr EXCEPT !.pc[t] = "add_rollback_lock", !.loc[t].err = "runtime"]
            /\ last' = NoCall
    /\ UNCHANGED <<rts, started, pure, hook>>

\* m.Lock() of the rollback.
AddContainer_RollbackLock(t) ==
    /\ mgr.pc[t] = "add_rollback_lock"
    /\ mgr.lock = "free"
    /\ mgr' = [mgr EXCEPT !.lock = t, !.pc[t] = "add_rollback"]
    /\ last' = NoCall
    /\ UNCHANGED <<rts, started, pure, hook>>

\* Under the mutex: policy.RemoveContainer, Unlock, return the runtime's
\* error.
AddContainer_Rollback(t) ==
    /\ mgr.pc[t] = "add_rollback"
    /\ rts' = rollback(rts, mgr.loc[t].id)
    /\ AddReturns(t, "runtime", "free")
    /\ UNCHANGED <<started, pure, hook>>

\* A caller thread enters RemoveContainer(containerID).
EnterRemoveContainer(t, id) ==
    /\ Alive
    /\ started
    /\ mgr.pc[t] = "idle"
    /\ mgr' = [mgr EXCEPT !.pc[t] = "remove_lock",
                          !.loc[t] = [NoLocals EXCEPT !.id = id]]
    /\ last' = NoCall
    /\ UNCHANGED <<rts, started, pure, hook>>

\* m.Lock() of RemoveContainer.
RemoveContainer_Lock(t) ==
    /\ mgr.pc[t] = "remove_lock"
    /\ mgr.lock = "free"
    /\ mgr' = [mgr EXCEPT !.lock = t, !.pc[t] = "remove_policy"]
    /\ last' = NoCall
    /\ UNCHANGED <<rts, started, pure, hook>>

\* Under the mutex: policy.RemoveContainer; the deferred Unlock; return.
RemoveContainer_Policy(t) ==
    /\ mgr.pc[t] = "remove_policy"
    /\ LET res == realTimePolicy_RemoveContainer(rts, mgr.loc[t].id)
       IN  /\ rts' = res.st
           /\ mgr' = [mgr EXCEPT !.lock = "free", !.pc[t] = "idle", !.loc[t] = NoLocals]
           /\ last' = [NoCall EXCEPT !.op = "manager.RemoveContainer",
                                     !.id = mgr.loc[t].id,
                                     !.err = res.err,
                                     !.hadRt = GetRtCPUSetAndUtilOfContainer(rts, mgr.loc[t].id).ok]
    /\ UNCHANGED <<started, pure, hook>>

\* A pod as the manager sees it: its init and regular containers by name
\* (pod.Spec), and what the status provider says of it: whether it has a
\* status, the phase, the names whose container id the status resolves; the
\* deletion timestamp.  A pod without a status has the zero PodStatus.  The
\* id of a container as it runs now is written like its name; stale holds
\* the names for which the status still resolves the id of the container's
\* previous run.
Pod(uid, init, regular, hasStatus, running, deleted, resolved) ==
    [uid |-> uid, init |-> init, regular |-> regular, hasStatus |-> hasStatus,
     running |-> running, deleted |-> deleted, resolved |-> resolved, stale |-> {}]

\* The id a container had before it was restarted.
PreviousID(name) == name \o ".previous"

\* A running pod of which the containers in stale were restarted, and whose
\* status has not been brought up to date since.
RestartedPod(uid, init, regular, stale) ==
    LET names == {init[i] : i \in DOMAIN init} \cup {regular[i] : i \in DOMAIN regular}
    IN  [Pod(uid, init, regular, TRUE, TRUE, FALSE, names) EXCEPT !.stale = stale]

PodsOf(uid, init, regular) ==
    LET names == {init[i] : i \in DOMAIN init} \cup {regular[i] : i \in DOMAIN regular}
    IN  {Pod(uid, init, regular, FALSE, FALSE, FALSE, {})}
        \cup {Pod(uid, init, regular, TRUE, r, d, res) :
                 r \in BOOLEAN, d \in BOOLEAN, res \in SUBSET names}

\* What m.activePods() may return.
PodLists ==
    {<< >>}
    \cup {<< p >> : p \in PodsOf("p1", << >>, << "c1" >>)}
    \cup {<< p >> : p \in PodsOf("p3", << "c1" >>, << "c2" >>)}
    \cup {<< p, q >> : p \in PodsOf("p1", << >>, << "c1" >>),
                       q \in {Pod("p2", << >>, << "c2" >>, TRUE, TRUE, FALSE, {"c2"}),
                              Pod("p2", << >>, << "c2" >>, FALSE, FALSE, FALSE, {})}}
    \cup {<< RestartedPod("p3", << "c1" >>, << "c2" >>, {"c2"}) >>}

\* What m.activePods() returns to the reconcile loop, which keeps the list
\* for a whole tick: one pod in each condition, a pod with an init and a
\* regular container, two pods.
ReconcilePodLists ==
    {<< >>}
    \cup {<< p >> : p \in {q \in PodsOf("p1", << >>, << "c1" >>) :
                              q.hasStatus /\ ~(q.running /\ q.deleted) => q.resolved # {}}}
    \cup {<< Pod("p3", << "c1" >>, << "c2" >>, h, TRUE, FALSE, {"c1", "c2"}) >> : h \in BOOLEAN}
    \cup {<< Pod("p1", << >>, << "c1" >>, FALSE, FALSE, FALSE, {}),
              Pod("p2", << >>, << "c2" >>, TRUE, TRUE, FALSE, {"c2"}) >>}

\* append(pod.Spec.InitContainers, pod.Spec.Containers...)
AllContainers(pod) == pod.init \o pod.regular

\* findContainerIDByName(&status, name): the id, or "" with an error.
findContainerIDByName(pod, name) ==
    IF name \in pod.resolved
    THEN IF name \in pod.stale THEN PreviousID(name) ELSE name
    ELSE ""

\* removeStaleState stops before it removes anything: a pod without a
\* status, or a container without an id.
StaleSweepAborts(activePods) ==
    \E i \in DOMAIN activePods :
        \/ ~activePods[i].hasStatus
        \/ \E k \in DOMAIN AllContainers(activePods[i]) :
              findContainerIDByName(activePods[i], AllContainers(activePods[i])[k]) = ""

\* activeContainers of removeStaleState.
ActiveContainers(activePods) ==
    UNION {{findContainerIDByName(activePods[i], AllContainers(activePods[i])[k]) :
               k \in DOMAIN AllContainers(activePods[i])} : i \in DOMAIN activePods}

\* The loop over m.state.GetCPUAssignments() of removeStaleState, the map
\* visited in the given order.
RECURSIVE RemoveStale(_, _, _)
RemoveStale(s, order, activeContainers) ==
    IF order = << >>
    THEN s
    ELSE RemoveStale(IF Head(order) \in activeContainers
                     THEN s
                     ELSE realTimePolicy_RemoveContainer(s, Head(order)).st,
                     Tail(order), activeContainers)

\* A sweep that passes over a container without an id instead of stopping.
removeStaleState_SkipUnresolved(s, sourcesReady, activePods, order) ==
    IF ~sourcesReady \/ activePods = << >>
    THEN s
    ELSE RemoveStale(s, order, ActiveContainers(activePods))

\* A sweep that keeps every entry.
removeStaleState_KeepAll(s, sourcesReady, activePods, order) == s

\* removeStaleState: the state it leaves.
removeStaleState(s, sourcesReady, activePods, order) ==
    IF ~sourcesReady
    THEN s
    ELSE IF Len(activePods) = 0
         THEN s
         ELSE IF StaleSweepAborts(activePods)
              THEN s
              ELSE RemoveStale(s, order, ActiveContainers(activePods))

\* The containers the reconcile loop goes through: those of each pod in
\* turn, each with what the loop reads of its pod.
RECURSIVE WorkList(_)
WorkList(activePods) ==
    IF activePods = << >>
    THEN << >>
    ELSE LET pod == Head(activePods)
             all == AllContainers(pod)
         IN  [k \in DOMAIN all |->
                 [uid |-> pod.uid, name |-> all[k], hasStatus |-> pod.hasStatus,
                  running |-> pod.running, deleted |-> pod.deleted,
                  containerID |-> findContainerIDByName(pod, all[k])]]
             \o WorkList(Tail(activePods))

\* A reconcile that adds a missing container of a pod that is being deleted.
shouldAdd_IgnoreDeletion(item) == item.running

\* A reconcile that never adds a container it finds missing from the state.
shouldAdd_Never(item) == FALSE

\* status.Phase == v1.PodRunning && pod.DeletionTimestamp == nil
shouldAdd(item) == item.running /\ ~item.deleted

\* The reconcile goroutine goes on to the next container of its tick.
Continue(work) ==
    mgr' = [mgr EXCEPT !.pc["rec"] = "rec_loop", !.work = work, !.loc["rec"] = NoLocals]

\* A tick of reconcileState starts: removeStaleState reads
\* m.sourcesReady.AllReady() and returns when the sources are not ready.
Reconcile_Tick(sourcesReady) ==
    /\ Alive
    /\ started
    /\ mgr.pc["rec"] = "idle"
    /\ IF sourcesReady
       THEN /\ mgr' = [mgr EXCEPT !.pc["rec"] = "stale_lock", !.loc["rec"] = NoLocals]
            /\ last' = NoCall
            /\ UNCHANGED rts
       ELSE /\ mgr' = [mgr EXCEPT !.pc["rec"] = "rec_pods", !.loc["rec"] = NoLocals]
            /\ rts' = removeStaleState(rts, FALSE, << >>, << >>)
            /\ last' = [NoCall EXCEPT !.op = "removeStaleState",
                                      !.nAssigned = Cardinality(DOMAIN rts.assignments)]
    /\ UNCHANGED <<started, pure, hook>>

\* m.Lock() of removeStaleState.
RemoveStale_Lock ==
    /\ mgr.pc["rec"] = "stale_lock"
    /\ mgr.lock = "free"
    /\ mgr' = [mgr EXCEPT !.lock = "rec", !.pc["rec"] = "stale_sweep"]
    /\ last' = NoCall
    /\ UNCHANGED <<rts, started, pure, hook>>

\* Under the mutex: the rest of removeStaleState, and its deferred Unlock.
RemoveStale_Sweep(activePods) ==
    /\ mgr.pc["rec"] = "stale_sweep"
    /\ \E order \in IterationOrders(DOMAIN rts.assignments) :
          rts' = removeStaleState(rts, TRUE, activePods, order)
    /\ mgr' = [mgr EXCEPT !.lock = "free", !.pc["rec"] = "rec_pods"]
    /\ last' = [NoCall EXCEPT !.op = "removeStaleState",
                              !.ready = TRUE,
                              !.pods = activePods,
                              !.nAssigned = Cardinality(DOMAIN rts.assignments)]
    /\ UNCHANGED <<started, pure, hook>>

\* for _, pod := range m.activePods()
Reconcile_ActivePods(activePods) ==
    /\ mgr.pc["rec"] = "rec_pods"
    /\ Continue(WorkList(activePods))
    /\ last' = NoCall
    /\ UNCHANGED <<rts, started, pure, hook>>

\* The head of the inner loop: the tick ends when no container is left; a
\* pod without a status is left (break), a container without an id is
\* passed over (continue).
Reconcile_Loop ==
    /\ mgr.pc["rec"] = "rec_loop"
    /\ IF mgr.work = << >>
       THEN mgr' = [mgr EXCEPT !.pc["rec"] = "idle", !.loc["rec"] = NoLocals]
       ELSE LET item == Head(mgr.work)
            IN  IF ~item.hasStatus
                THEN Continue(SelectSeq(mgr.work, LAMBDA w : w.uid # item.uid))
                ELSE IF item.containerID = ""
                     THEN Continue(Tail(mgr.work))
                     ELSE mgr' = [mgr EXCEPT !.pc["rec"] = "rec_getcpuset",
                                             !.loc["rec"] = [NoLocals EXCEPT !.id = item.containerID]]
    /\ last' = NoCall
    /\ UNCHANGED <<rts, started, pure, hook>>

\* m.state.GetCPUSet(containerID), read without the mutex: a container that
\* is not in the state is added when its pod runs and is not being deleted,
\* and passed over otherwise.
Reconcile_GetCPUSet(req) ==
    /\ mgr.pc["rec"] = "rec_getcpuset"
    /\ IF State_GetCPUSet(rts, mgr.loc["rec"].id).ok
       THEN mgr' = [mgr EXCEPT !.pc["rec"] = "rec_getcpusetordefault"]
       ELSE IF shouldAdd(Head(mgr.work))
            THEN mgr' = [mgr EXCEPT !.pc["rec"] = "add_lock", !.loc["rec"].req = req]
            ELSE Continue(Tail(mgr.work))
    /\ last' = NoCall
    /\ UNCHANGED <<rts, started, pure, hook>>

\* err := m.AddContainer(...) has returned to the reconcile loop.
Reconcile_AfterAdd ==
    /\ mgr.pc["rec"] = "rec_afterAdd"
    /\ IF mgr.loc["rec"].err # "nil"
       THEN Continue(Tail(mgr.work))
       ELSE mgr' = [mgr EXCEPT !.pc["rec"] = "rec_getcpusetordefault"]
    /\ last' = NoCall
    /\ UNCHANGED <<rts, started, pure, hook>>

\* m.state.GetCPUSetOrDefault(containerID), read without the mutex: an
\* empty CPU set is not pushed.
Reconcile_GetCPUSetOrDefault ==
    /\ mgr.pc["rec"] = "rec_getcpusetordefault"
    /\ LET cset == State_GetCPUSetOrDefault(rts, mgr.loc["rec"].id)
       IN  IF cset = {}
           THEN Continue(Tail(mgr.work))
           ELSE mgr' = [mgr EXCEPT !.pc["rec"] = "rec_rpc", !.loc["rec"].cpus = cset]
    /\ last' = NoCall
    /\ UNCHANGED <<rts, started, pure, hook>>

\* m.updateContainerCPUSet(containerID, cset) of the reconcile loop.
Reconcile_RPC(rpcOk) ==
    /\ mgr.pc["rec"] = "rec_rpc"
    /\ Continue(Tail(mgr.work))
    /\ last' = [NoCall EXCEPT !.op = "UpdateContainerResources",
                              !.id = mgr.loc["rec"].id,
                              !.set = mgr.loc["rec"].cpus,
                              !.err = IF rpcOk THEN "nil" ELSE "runtime"]
    /\ UNCHANGED <<rts, started, pure, hook>>

\* manager.Start, called once: it runs the policy's Start and launches the
\* reconcile goroutine.
Manager_Start ==
    /\ ~started
    /\ CallStart

\* The manager and the threads that use it.
NextManager ==
    \/ Manager_Start
    \/ \E t \in Callers, id \in Containers : \E req \in ManagerRequests(id) : EnterAddContainer(t, id, req)
    \/ \E t \in Threads : AddContainer_Lock(t)
    \/ \E t \in Threads : AddContainer_Policy(t)
    \/ \E t \in Threads, rpcOk \in BOOLEAN : AddContainer_RPC(t, rpcOk)
    \/ \E t \in Threads : AddContainer_RollbackLock(t)
    \/ \E t \in Threads : AddContainer_Rollback(t)
    \/ \E t \in Callers, id \in Containers : EnterRemoveContainer(t, id)
    \/ \E t \in Callers : RemoveContainer_Lock(t)
    \/ \E t \in Callers : RemoveContainer_Policy(t)
    \/ \E sourcesReady \in BOOLEAN : Reconcile_Tick(sourcesReady)
    \/ RemoveStale_Lock
    \/ \E activePods \in PodLists : RemoveStale_Sweep(activePods)
    \/ \E activePods \in ReconcilePodLists : Reconcile_ActivePods(activePods)
    \/ Reconcile_Loop
    \/ \E req \in ManagerRequests(mgr.loc["rec"].id) : Reconcile_GetCPUSet(req)
    \/ Reconcile_AfterAdd
    \/ Reconcile_GetCPUSetOrDefault
    \/ \E rpcOk \in BOOLEAN : Reconcile_RPC(rpcOk)

SpecManager == Init /\ [][NextManager]_vars

\* The steps thread t takes inside a call of AddContainer or RemoveContainer,
\* once it has entered the call.
CallStep(t) ==
    \/ AddContainer_Lock(t)
    \/ AddContainer_Policy(t)
    \/ \E rpcOk \in BOOLEAN : AddContainer_RPC(t, rpcOk)
    \/ AddContainer_RollbackLock(t)
    \/ AddContainer_Rollback(t)
    \/ t \in Callers /\ RemoveContainer_Lock(t)
    \/ t \in Callers /\ RemoveContainer_Policy(t)

\* What m.activePods() returns while the manager is watched for the end of
\* its calls: no pod, or a running pod with an init and a regular container.
FairPodLists ==
    {<< >>, << Pod("p3", << "c1" >>, << "c2" >>, TRUE, TRUE, FALSE, {"c1", "c2"}) >>}

\* The steps the reconcile goroutine takes inside a tick of reconcileState,
\* the calls of AddContainer it makes apart.
ReconcileStep ==
    \/ RemoveStale_Lock
    \/ \E activePods \in FairPodLists : RemoveStale_Sweep(activePods)
    \/ \E activePods \in FairPodLists : Reconcile_ActivePods(activePods)
    \/ Reconcile_Loop
    \/ \E req \in ManagerRequests(mgr.loc["rec"].id) : Reconcile_GetCPUSet(req)
    \/ Reconcile_AfterAdd
    \/ Reconcile_GetCPUSetOrDefault
    \/ \E rpcOk \in BOOLEAN : Reconcile_RPC(rpcOk)

NextManagerFair ==
    \/ Manager_Start
    \/ \E t \in Callers, id \in Containers : \E req \in ManagerRequests(id) : EnterAddContainer(t, id, req)
    \/ \E t \in Callers, id \in Containers : EnterRemoveContainer(t, id)
    \/ \E t \in Threads : CallStep(t)
    \/ \E sourcesReady \in BOOLEAN : Reconcile_Tick(sourcesReady)
    \/ ReconcileStep

\* The manager under the Go scheduler: a goroutine that can run does run, a
\* call of the runtime returns, and sync.Mutex hands the mutex to a
\* goroutine that keeps waiting for it (its starvation mode), so a thread
\* that can take a step again and again takes it.  wait.Until starts a tick
\* of reconcileState every reconcilePeriod.
SpecManagerFair ==
    /\ Init
    /\ [][NextManagerFair]_vars
    /\ \A t \in Threads : SF_vars(CallStep(t))
    /\ SF_vars(ReconcileStep)
    /\ WF_vars(\E sourcesReady \in BOOLEAN : Reconcile_Tick(sourcesReady))

\* The manager with a real-time container c1 of a pod that stays active:
\* every list m.activePods() returns holds a running pod, not being deleted,
\* with a status that resolves the ids of its containers, and c1 among
\* them.  c1 asks for 0.7 of each of MaxReqCpus CPUs, which fits whenever c1
\* holds nothing, as the other container asks for no CPU; nobody calls
\* RemoveContainer for c1.
ConvergePodLists ==
    {<< Pod("p1", << >>, << "c1" >>, TRUE, TRUE, FALSE, {"c1"}) >>,
     << Pod("p3", << "c1" >>, << "c2" >>, TRUE, TRUE, FALSE, {"c1", "c2"}) >>}

ConvergeRequests(id) ==
    {r \in ManagerRequests(id) : r.period # 0 /\ (id = "c1" <=> r.cpus = MaxReqCpus)}

ConvergeStep ==
    \/ RemoveStale_Lock
    \/ \E activePods \in ConvergePodLists : RemoveStale_Sweep(activePods)
    \/ \E activePods \in ConvergePodLists : Reconcile_ActivePods(activePods)
    \/ Reconcile_Loop
    \/ \E req \in ConvergeRequests(mgr.loc["rec"].id) : Reconcile_GetCPUSet(req)
    \/ Reconcile_AfterAdd
    \/ Reconcile_GetCPUSetOrDefault
    \/ \E rpcOk \in BOOLEAN : Reconcile_RPC(rpcOk)

NextConverge ==
    \/ Manager_Start
    \/ \E t \in Callers, id \in Containers : \E req \in ConvergeRequests(id) : EnterAddContainer(t, id, req)
    \/ \E t \in Callers : EnterRemoveContainer(t, "c2")
    \/ \E t \in Threads : CallStep(t)
    \/ \E sourcesReady \in BOOLEAN : Reconcile_Tick(sourcesReady)
    \/ ConvergeStep

\* The same under the Go scheduler, as in SpecManagerFair.
SpecConverge ==
    /\ Init
    /\ [][NextConverge]_vars
    /\ \A t \in Threads : SF_vars(CallStep(t))
    /\ SF_vars(ConvergeStep)
    /\ WF_vars(\E sourcesReady \in BOOLEAN : Reconcile_Tick(sourcesReady))

(***************************************************************************)
(* The QoS classifier (qos.go).  A ResourceList is a function from         *)
(* resource names to quantities.                                           *)
(***************************************************************************)

supportedQoSComputeResources == {"cpu", "memory", "rt-runtime", "rt-period", "rt-cpu"}

isSupportedQoSComputeResource(name) == name \in supportedQoSComputeResources

\* One pass of `for name, quantity := range list` of GetPodQOS over a
\* container's requests or limits: every supported name whose quantity is
\* above zero is added to the total (the order of the range does not show
\* in a sum).
AddSupportedPositive(total, list) ==
    LET found == {name \in DOMAIN list :
                     isSupportedQoSComputeResource(name) /\ list[name] > 0}
    IN  [name \in (DOMAIN total) \cup found |->
            (IF name \in DOMAIN total THEN total[name] ELSE 0)
            + (IF name \in found THEN list[name] ELSE 0)]

\* qosLimitsFound of one container.
QosLimitsFound(container) ==
    {name \in DOMAIN container.limits :
        isSupportedQoSComputeResource(name) /\ container.limits[name] > 0}

\* The loop of GetPodQOS over allContainers: requests, limits, isGuaranteed.
RECURSIVE QosLoop(_, _)
QosLoop(allContainers, acc) ==
    IF allContainers = << >>
    THEN acc
    ELSE LET container == Head(allContainers)
             found     == QosLimitsFound(container)
         IN  QosLoop(Tail(allContainers),
                     [requests     |-> AddSupportedPositive(acc.requests, container.requests),
                      limits       |-> AddSupportedPositive(acc.limits, container.limits),
                      isGuaranteed |-> IF ~({"memory", "cpu"} \subseteq found)
                                          /\ "rt-runtime" \notin found
                                       THEN FALSE
                                       ELSE acc.isGuaranteed])

\* A GetPodQOS that does not compare the number of requests and of limits.
GetPodQOS_NoLenCheck(pod) ==
    LET acc == QosLoop(pod.containers \o pod.initContainers,
                       [requests |-> EmptyMap, limits |-> EmptyMap, isGuaranteed |-> TRUE])
    IN  IF acc.requests = EmptyMap /\ acc.limits = EmptyMap
        THEN "BestEffort"
        ELSE IF acc.isGuaranteed
                /\ \A name \in DOMAIN acc.requests :
                      name \in DOMAIN acc.limits /\ acc.limits[name] = acc.requests[name]
             THEN "Guaranteed"
             ELSE "Burstable"

\* GetPodQOS
GetPodQOS(pod) ==
    LET acc == QosLoop(pod.containers \o pod.initContainers,
                       [requests |-> EmptyMap, limits |-> EmptyMap, isGuaranteed |-> TRUE])
        match == acc.isGuaranteed
                 /\ \A name \in DOMAIN acc.requests :
                       name \in DOMAIN acc.limits /\ acc.limits[name] = acc.requests[name]
    IN  IF Cardinality(DOMAIN acc.requests) = 0 /\ Cardinality(DOMAIN acc.limits) = 0
        THEN "BestEffort"
        ELSE IF match /\ Cardinality(DOMAIN acc.requests) = Cardinality(DOMAIN acc.limits)
             THEN "Guaranteed"
             ELSE "Burstable"

\* The resource names the pods below use: supported ones, and one that is
\* not.
QoSResourceNames == {"cpu", "memory", "rt-runtime", "rt-cpu", "storage"}

\* The requests or the limits of a container: at most two resources.
QoSResourceLists ==
    UNION {[D -> 0 .. MaxQuantity] :
              D \in {X \in SUBSET QoSResourceNames : Cardinality(X) <= 2}}

Container(requests, limits) == [requests |-> requests, limits |-> limits]

\* The init container of a pod that has one.
QoSInitContainers ==
    LET one(names) == [name \in names |-> 1]
    IN  {Container(one({"cpu", "memory"}), one({"cpu", "memory"})),
         Container(EmptyMap, one({"cpu", "memory"})),
         Container(one({"rt-runtime"}), one({"rt-runtime"})),
         Container(one({"cpu"}), EmptyMap),
         Container(EmptyMap, EmptyMap),
         Container([name \in {"cpu", "memory"} |-> IF name = "cpu" THEN 0 ELSE 1],
                   [name \in {"cpu", "memory"} |-> IF name = "cpu" THEN 0 ELSE 1])}

\* The pods handed to GetPodQOS: no container, or one regular container and
\* at most one init container.
QoSPods ==
    {[containers |-> << >>, initContainers |-> << >>]}
    \cup {[containers |-> << Container(r, l) >>, initContainers |-> i] :
             r \in QoSResourceLists, l \in QoSResourceLists,
             i \in {<< >>} \cup {<< c >> : c \in QoSInitContainers}}

\* GetPodQOS is called on a pod.
CallGetPodQOS ==
    /\ pure.op = "none"
    /\ \E pod \in QoSPods :
          pure' = [op |-> "GetPodQOS", arg |-> pod, res |-> GetPodQOS(pod)]
    /\ UNCHANGED <<rts, started, last, mgr, hook>>

\* No manager, no policy: the functions without state are called on their
\* own.
InitPure ==
    /\ rts = NewRtState({}, EmptyMap)
    /\ started = FALSE
    /\ last = NoCall
    /\ mgr = NewManager
    /\ pure = NoPure
    /\ hook = NoHook

NextQoS == CallGetPodQOS

SpecQoS == InitPure /\ [][NextQoS]_vars

(***************************************************************************)
(* The balanced resource scorer of the scheduler (src/unnamed/part_001).   *)
(* Its fractions are float64 quotients of int64 values; the model keeps    *)
(* each as an exact quotient [num, den] and computes the score in whole    *)
(* numbers over the common denominator, truncating toward zero where the   *)
(* source converts with int64(...).  float64 rounding is not modelled.     *)
(***************************************************************************)

\* The largest requested or allocatable value, and the largest volume count.
MaxValue == 3

\* framework.MaxNodeScore.
MaxNodeScore == 100

\* A conversion that rounds to the nearest integer, half away from zero.
TruncDiv_Round(num, den) ==
    IF num >= 0
    THEN (2 * num + den) \div (2 * den)
    ELSE 0 - ((2 * (0 - num) + den) \div (2 * den))

\* int64(x) of the float64 x = num / den, den > 0: truncation toward zero.
TruncDiv(num, den) ==
    IF num >= 0 THEN num \div den ELSE 0 - ((0 - num) \div den)

Abs(x) == IF x >= 0 THEN x ELSE 0 - x

fractionOfCapacity(requested, capacity) ==
    IF requested = 0
    THEN [num |-> 0, den |-> 1]
    ELSE IF capacity = 0
         THEN [num |-> 1, den |-> 1]
         ELSE [num |-> requested, den |-> capacity]

\* The product of the denominators of the fractions.
RECURSIVE CommonDen(_)
CommonDen(fractions) ==
    IF fractions = << >>
    THEN 1
    ELSE Head(fractions).den * CommonDen(Tail(fractions))

RECURSIVE SumSeq(_)
SumSeq(terms) ==
    IF terms = << >> THEN 0 ELSE Head(terms) + SumSeq(Tail(terms))

\* variance(terms...) of the terms t[i] / den, as the quotient [num, den]:
\* with n terms of sum S, the mean is S / (n * den) and the variance is
\* the sum of (n * t[i] - S)^2 over n^3 * den^2.
variance(terms, den) ==
    LET n == Len(terms)
        S == SumSeq(terms)
    IN  [num |-> SumSeq([i \in 1 .. n |-> (n * terms[i] - S) * (n * terms[i] - S)]),
         den |-> n * n * n * den * den]

\* The fractions of the requests in the order the range over requested
\* visits them.
RECURSIVE RequestFractions(_, _, _)
RequestFractions(requested, allocable, order) ==
    IF order = << >>
    THEN << >>
    ELSE << fractionOfCapacity(requested[Head(order)], MapGet(allocable, Head(order))) >>
         \o RequestFractions(requested, allocable, Tail(order))

\* balancedResourceScorer: gateEnabled is the feature gate
\* BalanceAttachedNodeVolumes, order the order of the range over requested.
\* A fraction of the requests that is 1 or more returns 0 at once; the
\* volume fraction is appended without that test.
balancedResourceScorer(requested, allocable, includeVolumes, gateEnabled, requestedVolumes, allocatableVolumes, order) ==
    LET resourceFractions == RequestFractions(requested, allocable, order)
        withVolumes == includeVolumes /\ gateEnabled /\ allocatableVolumes > 0
        fractions ==
            IF withVolumes
            THEN Append(resourceFractions,
                        [num |-> requestedVolumes, den |-> allocatableVolumes])
            ELSE resourceFractions
        den   == CommonDen(fractions)
        terms == [i \in DOMAIN fractions |-> (fractions[i].num * den) \div fractions[i].den]
    IN  IF \E i \in DOMAIN resourceFractions :
              resourceFractions[i].num >= resourceFractions[i].den
        THEN 0
        ELSE IF Len(fractions) = 2
             THEN TruncDiv((den - Abs(terms[1] - terms[2])) * MaxNodeScore, den)
             ELSE LET v == variance(terms, den)
                  IN  TruncDiv((v.den - v.num) * MaxNodeScore, v.den)

\* The maps PriorityMap hands to the scorer: a value for cpu and one for
\* memory (DefaultRequestedRatioResources), and one for the RT utilisation
\* when the requested utilisation is not zero.
ScoreValues == 0 .. MaxValue

ScoreRequests ==
    {[name \in {"cpu", "memory"} |-> IF name = "cpu" THEN c ELSE m] :
        c \in ScoreValues, m \in ScoreValues}
    \cup {[name \in {"cpu", "memory", "rt-utilization"} |->
              IF name = "cpu" THEN c ELSE IF name = "memory" THEN m ELSE u] :
             c \in ScoreValues, m \in ScoreValues, u \in ScoreValues \ {0}}

ScoreAllocables(requested) == [DOMAIN requested -> ScoreValues]

\* The volume counts of the node's transient information; without
\* includeVolumes the scorer is handed 0 and 0.
ScoreVolumes ==
    {[include |-> FALSE, gate |-> g, requested |-> 0, allocatable |-> 0] : g \in BOOLEAN}
    \cup {[include |-> TRUE, gate |-> TRUE, requested |-> r, allocatable |-> a] :
             r \in ScoreValues, a \in ScoreValues}

\* balancedResourceScorer is called.
CallBalancedResourceScorer ==
    /\ pure.op = "none"
    /\ \E requested \in ScoreRequests :
       \E allocable \in ScoreAllocables(requested) :
       \E vol \in ScoreVolumes :
       \E order \in IterationOrders(DOMAIN requested) :
          pure' = [op  |-> "balancedResourceScorer",
                   arg |-> [requested |-> requested, allocable |-> allocable,
                            vol |-> vol],
                   res |-> balancedResourceScorer(requested, allocable, vol.include,
                                                  vol.gate, vol.requested,
                                                  vol.allocatable, order)]
    /\ UNCHANGED <<rts, started, last, mgr, hook>>

NextScore == CallBalancedResourceScorer

SpecScore == InitPure /\ [][NextScore]_vars

(***************************************************************************)
(* ResourceAllocationPriority.PriorityMap (resource_allocation.go) with    *)
(* balancedResourceScorer as its scorer.  A pod is reduced to what the     *)
(* function reads of it: its request of each resource and its RT           *)
(* utilisation (CalculatePodRtUtilAndCpu); a node to its allocatable       *)
(* values, the non-zero requests of the pods already scheduled on it, and  *)
(* its transient information: whether it is there (not nil), and the two  *)
(* volume counts.                                                          *)
(***************************************************************************)
DefaultRequestedRatioResources == {"memory", "cpu"}

\* calculateResourceAllocatableRequest for cpu and memory: allocatable and
\* requested.
calculateResourceAllocatableRequest(nodeInfo, pod, resource) ==
    [allocatable |-> nodeInfo.allocatable[resource],
     requested   |-> nodeInfo.nonZeroRequest[resource] + pod.request[resource]]

\* calculateResourceRTUtilizationAllocatableRequest
calculateResourceRTUtilizationAllocatableRequest(nodeInfo, pod) ==
    IF pod.rtUtil # 0
    THEN [allocatable |-> nodeInfo.allocatable["rt-utilization"],
          requested   |-> nodeInfo.nonZeroRequest["rt-utilization"] + pod.rtUtil]
    ELSE [allocatable |-> 0, requested |-> 0]

\* A PriorityMap that hands the RT utilisation to the scorer whether the pod
\* asks for any or not.
PriorityMap_AlwaysRt(pod, nodeInfo, gateEnabled, order) ==
    LET names == DefaultRequestedRatioResources \cup {"rt-utilization"}
        requested == [name \in names |->
                         nodeInfo.nonZeroRequest[name]
                         + (IF name = "rt-utilization" THEN pod.rtUtil ELSE pod.request[name])]
        allocatable == [name \in names |-> nodeInfo.allocatable[name]]
        withVolumes == gateEnabled /\ nodeInfo.transientInfo.present
        vol == IF withVolumes
               THEN [include |-> TRUE, gate |-> gateEnabled,
                     requested |-> nodeInfo.transientInfo.requestedVolumes,
                     allocatable |-> nodeInfo.transientInfo.allocatableVolumesCount]
               ELSE [include |-> FALSE, gate |-> gateEnabled, requested |-> 0, allocatable |-> 0]
    IN  [requested |-> requested, allocable |-> allocatable, vol |-> vol,
         score |-> balancedResourceScorer(requested, allocatable, vol.include, vol.gate,
                                          vol.requested, vol.allocatable,
                                          <<"cpu", "memory", "rt-utilization">>)]

\* PriorityMap for a node that exists and a priority built with
\* DefaultRequestedRatioResources: the maps and the volume counts handed to
\* the scorer, and the score.  len(pod.Spec.Volumes) >= 0 holds for every
\* pod.  order is the order of the scorer's range over requested.
PriorityMap(pod, nodeInfo, gateEnabled, order) ==
    LET rt == calculateResourceRTUtilizationAllocatableRequest(nodeInfo, pod)
        names == IF rt.requested # 0
                 THEN DefaultRequestedRatioResources \cup {"rt-utilization"}
                 ELSE DefaultRequestedRatioResources
        requested == [name \in names |->
                         IF name = "rt-utilization"
                         THEN rt.requested
                         ELSE calculateResourceAllocatableRequest(nodeInfo, pod, name).requested]
        allocatable == [name \in names |->
                           IF name = "rt-utilization"
                           THEN rt.allocatable
                           ELSE calculateResourceAllocatableRequest(nodeInfo, pod, name).allocatable]
        withVolumes == gateEnabled /\ nodeInfo.transientInfo.present
        vol == IF withVolumes
               THEN [include |-> TRUE, gate |-> gateEnabled,
                     requested |-> nodeInfo.transientInfo.requestedVolumes,
                     allocatable |-> nodeInfo.transientInfo.allocatableVolumesCount]
               ELSE [include |-> FALSE, gate |-> gateEnabled, requested |-> 0, allocatable |-> 0]
    IN  [requested |-> requested, allocable |-> allocatable, vol |-> vol,
         score |-> balancedResourceScorer(requested, allocatable, vol.include, vol.gate,
                                          vol.requested, vol.allocatable,
                                          SelectSeq(order, LAMBDA name : name \in names))]

\* The pods and nodes handed to PriorityMap.
PriorityPods ==
    {[request |-> [name \in DefaultRequestedRatioResources |->
                      IF name = "cpu" THEN 1 ELSE m],
      rtUtil  |-> u] : m \in 0 .. 1, u \in 0 .. 2}

PriorityTransientInfos ==
    {[present |-> FALSE, requestedVolumes |-> 0, allocatableVolumesCount |-> 0]}
    \cup {[present |-> TRUE, requestedVolumes |-> 1, allocatableVolumesCount |-> a] :
             a \in 0 .. 2}

PriorityNodeInfos ==
    {[allocatable |-> a, nonZeroRequest |-> r, transientInfo |-> t] :
        a \in [DefaultRequestedRatioResources \cup {"rt-utilization"} -> ScoreValues],
        r \in [DefaultRequestedRatioResources \cup {"rt-utilization"} -> 0 .. 1],
        t \in PriorityTransientInfos}

\* PriorityMap is called for a pod and a node.
CallPriorityMap ==
    /\ pure.op = "none"
    /\ \E pod \in PriorityPods, nodeInfo \in PriorityNodeInfos, gateEnabled \in BOOLEAN :
       \E order \in IterationOrders(DefaultRequestedRatioResources \cup {"rt-utilization"}) :
          pure' = [op  |-> "PriorityMap",
                   arg |-> [pod |-> pod, nodeInfo |-> nodeInfo, gateEnabled |-> gateEnabled],
                   res |-> PriorityMap(pod, nodeInfo, gateEnabled, order)]
    /\ UNCHANGED <<rts, started, last, mgr, hook>>

NextPriority == CallPriorityMap

SpecPriority == InitPure /\ [][NextPriority]_vars

(***************************************************************************)
(* The container lifecycle hooks                                           *)
(* (pkg/kubelet/cm/internal_container_lifecycle.go).  A hook runs as one   *)
(* action: it records every call to a collaborator and every file write    *)
(* it makes, in order, each with its outcome.  The collaborators answer    *)
(* as their interfaces allow: the runtime and the topology manager with    *)
(* nil or an error, the file system with success or a failure.  The        *)
(* contents of the files are not modelled.                                 *)
(***************************************************************************)
PodPeriodFile == "pod/cpu.rt_period_us"
PodRuntimeFile == "pod/cpu.rt_multi_runtime_us"
ContainerPeriodFile == "container/cpu.rt_period_us"
ContainerRuntimeFile == "container/cpu.rt_multi_runtime_us"

\* The result of a step: the calls and writes made, and the error.
Step(name, err) == [steps |-> << [step |-> name, err |-> err] >>, err |-> err]

NoStep == [steps |-> << >>, err |-> "nil"]

\* `if err := a; err != nil { return err }` followed by b.
Then(a, b) ==
    IF a.err # "nil"
    THEN a
    ELSE [steps |-> a.steps \o b.steps, err |-> b.err]

\* writeRtFile: MkdirAll and WriteFile succeed, or one of them fails.
writeRtFile(file, fails) == Step(file, IF fails THEN "io" ELSE "nil")

\* writeCpuRtMultiRuntimeFile: nothing is written, and nil returned, for an
\* empty CPU set.
writeCpuRtMultiRuntimeFile(file, cpuSet, fails) ==
    IF cpuSet = {}
    THEN NoStep
    ELSE Step(file, IF fails THEN "io" ELSE "nil")

\* A writer of the bandwidth files that goes on after a failed write.
ensureCpuRtMultiRuntime_KeepsWriting(cpuSet, mounted, ioFail) ==
    IF ~mounted
    THEN [steps |-> << >>, err |-> "panic"]
    ELSE LET all == writeRtFile(PodPeriodFile, ioFail = 1).steps
                    \o writeCpuRtMultiRuntimeFile(PodRuntimeFile, cpuSet, ioFail = 2).steps
                    \o writeRtFile(ContainerPeriodFile, ioFail = 3).steps
                    \o writeCpuRtMultiRuntimeFile(ContainerRuntimeFile, cpuSet, ioFail = 4).steps
         IN  [steps |-> all,
              err   |-> IF \E k \in DOMAIN all : all[k].err # "nil" THEN "io" ELSE "nil"]

\* ensureCpuRtMultiRuntime: panics when the cpu subsystem is not mounted;
\* else writes the pod's period and runtime files, then the container's,
\* and returns the error of the first write that fails.  ioFail is the
\* write that fails, 0 for none.
ensureCpuRtMultiRuntime(cpuSet, mounted, ioFail) ==
    IF ~mounted
    THEN [steps |-> << >>, err |-> "panic"]
    ELSE Then(Then(Then(writeRtFile(PodPeriodFile, ioFail = 1),
                        writeCpuRtMultiRuntimeFile(PodRuntimeFile, cpuSet, ioFail = 2)),
                   writeRtFile(ContainerPeriodFile, ioFail = 3)),
              writeCpuRtMultiRuntimeFile(ContainerRuntimeFile, cpuSet, ioFail = 4))

\* manager.AddContainer run from its Lock to its return with no other
\* thread in between: the policy's AddContainer, the runtime call for a CPU
\* set that is not empty, the rollback when the runtime fails.
manager_AddContainer(s, req, containerID, order, rpcOk) ==
    LET res  == realTimePolicy_AddContainer(s, req, containerID, order)
        cpus == State_GetCPUSetOrDefault(res.st, containerID)
    IN  IF res.err # "nil"
        THEN res
        ELSE IF cpus = {} \/ rpcOk
             THEN [st |-> res.st, err |-> "nil"]
             ELSE [st |-> rollback(res.st, containerID), err |-> "runtime"]

\* cpuManager.RemoveContainer: the manager returns the error of its policy.
\* The real-time policy returns none; policyErr stands for a manager whose
\* policy does.
manager_RemoveContainer(s, containerID, policyErr) ==
    IF policyErr
    THEN [st |-> s, err |-> "policy"]
    ELSE realTimePolicy_RemoveContainer(s, containerID)

\* What a hook finds around it: the feature gates CPUManager and
\* TopologyManager, the answers of the runtime, of the policy behind
\* RemoveContainer and of the topology manager, whether the cpu subsystem is
\* mounted, and the write that fails.  An answer nobody asks for is left at
\* its good value.
HookEnvs ==
    {e \in [cpuGate : BOOLEAN, topoGate : BOOLEAN, rpcOk : BOOLEAN,
            policyErr : BOOLEAN, topoOk : BOOLEAN, mounted : BOOLEAN,
            ioFail : 0 .. 4] :
        /\ e.cpuGate \/ (e.rpcOk /\ ~e.policyErr)
        /\ e.topoGate \/ e.topoOk
        /\ e.mounted \/ e.ioFail = 0}

\* The surroundings of PreStartContainer, which removes nothing, and of the
\* two hooks of a stop, which call no runtime and write no file.
PreStartEnvs == {e \in HookEnvs : ~e.policyErr}

StopEnvs == {e \in HookEnvs : e.rpcOk /\ e.mounted /\ e.ioFail = 0}

PostStopContainer(s, containerID, env) ==
    LET remove == IF env.cpuGate
                  THEN manager_RemoveContainer(s, containerID, env.policyErr)
                  ELSE [st |-> s, err |-> "nil"]
        first  == IF env.cpuGate
                  THEN Step("cpuManager.RemoveContainer", remove.err)
                  ELSE NoStep
        topo   == IF env.topoGate
                  THEN Step("topologyManager.RemoveContainer",
                            IF env.topoOk THEN "nil" ELSE "topology")
                  ELSE NoStep
        run    == Then(first, topo)
    IN  [st |-> remove.st, steps |-> run.steps, err |-> run.err]

PreStopContainer(s, containerID, env) ==
    LET remove == IF env.cpuGate
                  THEN manager_RemoveContainer(s, containerID, env.policyErr)
                  ELSE [st |-> s, err |-> "nil"]
        first  == IF env.cpuGate
                  THEN Step("cpuManager.RemoveContainer", remove.err)
                  ELSE NoStep
    IN  [st |-> remove.st, steps |-> first.steps, err |-> first.err]

PreStartContainer(s, req, containerID, order, env) ==
    LET add   == IF env.cpuGate
                 THEN manager_AddContainer(s, req, containerID, order, env.rpcOk)
                 ELSE [st |-> s, err |-> "nil"]
        first == IF env.cpuGate
                 THEN Step("cpuManager.AddContainer", add.err)
                 ELSE NoStep
        got   == State_GetCPUSet(add.st, containerID)
        write == IF got.ok /\ req.runtime # 0
                 THEN ensureCpuRtMultiRuntime(got.set, env.mounted, env.ioFail)
                 ELSE NoStep
        topo  == IF env.topoGate
                 THEN Step("topologyManager.AddContainer",
                           IF env.topoOk THEN "nil" ELSE "topology")
                 ELSE NoStep
        run   == Then(Then(first, write), topo)
    IN  [st |-> add.st, steps |-> run.steps, err |-> run.err]

\* The requests of the containers the hooks are called for: c1 is not
\* real-time, or asks for 0.7 of each of MaxReqCpus CPUs, or has a runtime
\* and no period; c2 asks for a quarter of a CPU on no CPU at all.
HookRequests(id) ==
    {r \in RtRequests :
        \/ id = "c1" /\ r.runtime = 0 /\ r.period = 0 /\ r.cpus = 1
        \/ id = "c1" /\ r.runtime = (7 * UtilScale) \div 10 /\ r.period # 0
                     /\ r.cpus = MaxReqCpus
        \/ id = "c1" /\ r.runtime = UtilScale \div 4 /\ r.period = 0 /\ r.cpus = 1
        \/ id = "c2" /\ r.runtime = UtilScale \div 4 /\ r.period # 0 /\ r.cpus = 0}

\* A hook returns res.
HookReturns(op, id, req, env, res) ==
    /\ rts' = res.st
    /\ hook' = [op |-> op, id |-> id, req |-> req, cpuGate |-> env.cpuGate,
                topoGate |-> env.topoGate, steps |-> res.steps, err |-> res.err]
    /\ UNCHANGED <<started, last, mgr, pure>>

\* The kubelet lives: no panic of the policy, none of a hook.
HookAlive == Alive /\ hook.err # "panic"

CallPreStartContainer ==
    /\ HookAlive
    /\ started
    /\ \E id \in Containers :
       \E req \in HookRequests(id) :
       \E order \in RangeOrders(rts, req, id) :
       \E env \in PreStartEnvs :
          HookReturns("PreStartContainer", id, req, env,
                      PreStartContainer(rts, req, id, order, env))

CallPreStopContainer ==
    /\ HookAlive
    /\ started
    /\ \E id \in Containers :
       \E env \in StopEnvs :
          HookReturns("PreStopContainer", id, NoHook.req, env,
                      PreStopContainer(rts, id, env))

CallPostStopContainer ==
    /\ HookAlive
    /\ started
    /\ \E id \in Containers :
       \E env \in StopEnvs :
          HookReturns("PostStopContainer", id, NoHook.req, env,
                      PostStopContainer(rts, id, env))

Hook_Start == ~started /\ hook.op = "none" /\ CallStart

NextLifecycle ==
    \/ Hook_Start
    \/ CallPreStartContainer
    \/ CallPreStopContainer
    \/ CallPostStopContainer

SpecLifecycle == Init /\ [][NextLifecycle]_vars

(***************************************************************************)
(* The three placement variants of the real-time policy, called on their   *)
(* own with the same utilisation map, request and range order.             *)
(***************************************************************************)
\* The utilisations a CPU may carry when a placement runs: what one or two
\* of the requests above leave on it.
FitCpuUtils == {0, UtilScale \div 4, 2 * (UtilScale \div 4), (7 * UtilScale) \div 10}
FitReqUtils == {UtilScale \div 4, (7 * UtilScale) \div 10}

\* firstFit, worstFit and bestFit are called with the same arguments.
CallFit ==
    /\ pure.op = "none"
    /\ \E cpuToUtil \in [TopologyCPUs -> FitCpuUtils], reqUtil \in FitReqUtils, reqCpus \in RtCpuCounts :
       \E order \in TopologyOrders :
          pure' = [op  |-> "fit",
                   arg |-> [cpuToUtil |-> cpuToUtil, reqUtil |-> reqUtil,
                            reqCpus |-> reqCpus, order |-> order],
                   res |-> [firstFit |-> firstFit(order, cpuToUtil, reqUtil, reqCpus),
                            worstFit |-> worstFit(order, cpuToUtil, reqUtil, reqCpus),
                            bestFit  |-> bestFit(order, cpuToUtil, reqUtil, reqCpus)]]
    /\ UNCHANGED <<rts, started, last, mgr, hook>>

NextFit == CallFit

SpecFit == InitPure /\ [][NextFit]_vars

(***************************************************************************)
(* Properties.                                                             *)
(***************************************************************************)

\* The containers whose assigned CPU set contains cpu.
AssignedTo(s, cpu) == {c \in DOMAIN s.assignments : cpu \in s.assignments[c]}

RECURSIVE SumOfUtil(_, _)
SumOfUtil(s, ids) ==
    IF ids = {}
    THEN 0
    ELSE LET c == CHOOSE x \in ids : TRUE
         IN  MapGet(s.containerToUtil, c) + SumOfUtil(s, ids \ {c})

\* cpuToUtil[i] is the sum of the utilisations of the containers on i.
Balanced(s) ==
    \A cpu \in TopologyCPUs \cup DOMAIN s.cpuToUtil :
        MapGet(s.cpuToUtil, cpu) = SumOfUtil(s, AssignedTo(s, cpu))

\* Two utilisation maps read the same on every CPU.
SameValues(m1, m2) ==
    \A cpu \in (DOMAIN m1) \cup (DOMAIN m2) : MapGet(m1, cpu) = MapGet(m2, cpu)

\* The CPUs that can take reqUtil more and stay under the ceiling.
Candidates(s, reqUtil) ==
    {cpu \in DOMAIN s.cpuToUtil : s.cpuToUtil[cpu] + reqUtil < allocableRtUtil}

LastReqUtil == ReqUtil(last.req.period, last.req.runtime)

\* C1: from a fresh RtState, after any sequence of set and Delete (a set on
\* an assigned container included), cpuToUtil[i] is, for every CPU i, the
\* sum of containerToUtil[c] over the containers c whose CPU set holds i.
C1_BalanceUnderSetAndDelete == Balanced(rts)

\* A set on a container that was assigned has run, and some CPU carries two
\* containers.
C1_Witness ==
    /\ last.op = "Set"
    /\ last.hadRt
    /\ \E cpu \in DOMAIN rts.cpuToUtil :
          /\ Cardinality(AssignedTo(rts, cpu)) = 2
          /\ rts.cpuToUtil[cpu] > last.util
          /\ last.util > 0

\* C2: the same balance holds in every state the RtState reaches under all
\* of its mutators: set, Delete, SetDefaultCPUSet and the policy's Start.
C2_BalanceUnderAllMutators ==
    last.op \in {"none", "Set", "Delete", "SetDefaultCPUSet", "Start"} => Balanced(rts)

\* C3: after Start and any sequence of AddContainer and RemoveContainer,
\* cpuToUtil[i] is strictly below allocableRtUtil for every CPU i.
C3_BelowCeiling ==
    started => \A cpu \in DOMAIN rts.cpuToUtil : rts.cpuToUtil[cpu] < allocableRtUtil

\* An AddContainer was refused on a CPU that the request would have filled
\* exactly to the ceiling.
C3_Witness ==
    /\ started
    /\ last.op = "AddContainer"
    /\ last.err = "doesNotFit"
    /\ \E cpu \in DOMAIN rts.cpuToUtil :
          rts.cpuToUtil[cpu] + LastReqUtil = allocableRtUtil

\* The call just made is an AddContainer that gave the container its
\* assignment.
AddCreated ==
    /\ last'.op = "AddContainer"
    /\ last'.err = "nil"
    /\ ~last'.hadRt
    /\ GetRtCPUSetAndUtilOfContainer(rts', last'.id).ok

\* C4: a successful AddContainer that assigns utilisation u to the CPU set S
\* finds cpuUtil[i] + u < allocableRtUtil on every i in S before the call
\* and leaves cpuUtil[i] < allocableRtUtil + u after it.
C4_AdmissionSafety ==
    [][AddCreated =>
         LET u == ReqUtil(last'.req.period, last'.req.runtime)
             S == rts'.assignments[last'.id]
         IN  /\ rts'.containerToUtil[last'.id] = u
             /\ \A i \in S :
                   /\ MapGet(rts.cpuToUtil, i) + u < allocableRtUtil
                   /\ MapGet(rts'.cpuToUtil, i) < allocableRtUtil + u]_vars

\* An AddContainer put a container on a CPU that another container uses.
C4_Witness ==
    /\ last.op = "AddContainer"
    /\ last.err = "nil"
    /\ ~last.hadRt
    /\ last.id \in DOMAIN rts.containerToUtil
    /\ \E i \in rts.assignments[last.id] : rts.cpuToUtil[i] > rts.containerToUtil[last.id]

\* The utilisation (in units) that is pct hundredths of a CPU.
Units(pct) == (pct * UtilScale) \div 100

\* The node of the specification's scenarios 4 and 5: four CPUs that carry
\* 0.1, 0.3, 0.0 and 0.5.
ScenarioState ==
    [assignments     |-> EmptyMap,
     defaultCPUSet   |-> 0 .. 3,
     containerToUtil |-> EmptyMap,
     cpuToUtil       |-> [cpu \in 0 .. 3 |->
                            CASE cpu = 0 -> Units(10)
                              [] cpu = 1 -> Units(30)
                              [] cpu = 2 -> 0
                              [] cpu = 3 -> Units(50)]]

ScenarioRequest(pct, cpus) == [period |-> UtilScale, runtime |-> Units(pct), cpus |-> cpus]

\* Scenario 5: three CPUs at u = 0.5 go to {0, 1, 2}; at u = 0.7 the
\* request does not fit and nothing changes.
C5_Scenario ==
    \A order \in IterationOrders(0 .. 3) :
        LET fits   == realTimePolicy_AddContainer(ScenarioState, ScenarioRequest(50, 3), "c1", order)
            toobig == realTimePolicy_AddContainer(ScenarioState, ScenarioRequest(70, 3), "c1", order)
        IN  /\ fits.err = "nil"
            /\ fits.st.assignments = [c \in {"c1"} |-> {0, 1, 2}]
            /\ toobig = [st |-> ScenarioState, err |-> "doesNotFit"]

\* C5: an AddContainer that comes to place a real-time container (non-zero
\* utilisation, no assignment yet) when fewer than cpuCount CPUs satisfy
\* util + u < allocableRtUtil returns the does-not-fit error and leaves the
\* whole state (assignments, containerToUtil, cpuToUtil, defaultCPUSet) as
\* it was; and scenario 5 of the specification comes out as stated.
C5_DoesNotFitLeavesState ==
    [][/\ C5_Scenario
       /\ (/\ last'.op = "AddContainer"
           /\ ReqUtil(last'.req.period, last'.req.runtime) # 0
           /\ ~last'.hadRt
           /\ Cardinality(Candidates(rts, ReqUtil(last'.req.period, last'.req.runtime)))
                 < last'.req.cpus)
          => (last'.err = "doesNotFit" /\ rts' = rts)
       /\ (last'.op = "AddContainer" /\ last'.err = "doesNotFit") => rts' = rts]_vars

\* An AddContainer failed although some CPU, but not enough of them, could
\* have taken the request.
C5_Witness ==
    /\ last.op = "AddContainer"
    /\ last.err = "doesNotFit"
    /\ Candidates(rts, LastReqUtil) # {}
    /\ rts.containerToUtil # EmptyMap

\* C6: an AddContainer that repeats the AddContainer just made (same id, same
\* requests) leaves the state as the first call left it and returns what the
\* first call returned: success after a first call that succeeded.
C6_IdempotentReAdd ==
    [][(last'.op = "AddContainer" /\ last'.again)
          => (rts' = rts /\ last'.err = last.err)]_vars

\* A real-time container was added and the same AddContainer made again.
C6_Witness ==
    /\ last.op = "AddContainer"
    /\ last.again
    /\ last.hadRt
    /\ last.err = "nil"
    /\ last.req.cpus > 0
    /\ rts.assignments[last.id] # {}

\* C7 as stated: for every RtState, id, S and u, set(id, S, u) followed by
\* Delete(id) leaves cpuToUtil of every CPU at the value it had before the set.
C7_DeleteUndoesAnySet ==
    [][(last'.op = "Set" /\ last'.err = "nil")
          => SameValues(RtState_Delete(rts', last'.id).st.cpuToUtil, rts.cpuToUtil)]_vars

\* C7 as amended: when id has no recorded utilisation before the set,
\* set(id, S, u) followed by Delete(id) leaves cpuToUtil of every CPU at the
\* value it had before the set, but for a CPU of S whose value was negative,
\* which Delete clamps to 0.
C7_DeleteUndoesFirstSet ==
    [][(last'.op = "Set" /\ last'.err = "nil" /\ ~last'.hadRt)
          => LET after == RtState_Delete(rts', last'.id)
             IN  /\ after.err = "nil"
                 /\ \A cpu \in TopologyCPUs \cup DOMAIN rts.cpuToUtil :
                       MapGet(after.st.cpuToUtil, cpu) =
                          IF cpu \in last'.set
                          THEN Max(MapGet(rts.cpuToUtil, cpu), 0)
                          ELSE MapGet(rts.cpuToUtil, cpu)]_vars

\* A first set of a container on a CPU that carries another container.
C7_Witness ==
    /\ last.op = "Set"
    /\ last.err = "nil"
    /\ ~last.hadRt
    /\ last.util > 0
    /\ \E cpu \in last.set : rts.cpuToUtil[cpu] > last.util

\* C8: AddContainer for a container whose rt-period or rt-runtime request is
\* 0 succeeds and changes nothing, whatever its rt-cpu count.
C8_NotRealTimeIsNoOp ==
    [][(last'.op = "AddContainer" /\ (last'.req.period = 0 \/ last'.req.runtime = 0))
          => (last'.err = "nil" /\ rts' = rts)]_vars

\* AddContainer has run for an unassigned container that asks for CPUs and
\* for a runtime, with a period of 0.
C8_Witness ==
    /\ last.op = "AddContainer"
    /\ last.req.period = 0
    /\ last.req.runtime > 0
    /\ last.req.cpus = MaxReqCpus
    /\ ~last.hadRt
    /\ last.err = "nil"

\* C9: after Start, on any prior state, defaultCPUSet is the set of all CPUs
\* of the topology, no container has a CPU set or a utilisation, and
\* cpuToUtil is 0 on every CPU of the topology.
C9_StartResets ==
    last.op = "Start" =>
        /\ rts.defaultCPUSet = TopologyCPUs
        /\ rts.assignments = EmptyMap
        /\ rts.containerToUtil = EmptyMap
        /\ \A cpu \in TopologyCPUs : cpu \in DOMAIN rts.cpuToUtil /\ rts.cpuToUtil[cpu] = 0

\* Start has run on a state that held assignments.
C9_Witness ==
    /\ last.op = "Start"
    /\ last.nAssigned > 0

\* C10: RemoveContainer(id) always succeeds; without a real-time assignment
\* of id it changes nothing; otherwise id ends with neither CPU set nor
\* utilisation, cpuToUtil is lower by id's utilisation on exactly the CPUs
\* id had, and nothing else changes.  So a RemoveContainer right after the
\* AddContainer that assigned id gives back the state before that call.
C10_RemoveContainer ==
    [][/\ last'.op = "RemoveContainer" =>
            LET id == last'.id
                rt == GetRtCPUSetAndUtilOfContainer(rts, id)
            IN  /\ last'.err = "nil"
                /\ ~rt.ok => rts' = rts
                /\ rt.ok =>
                     /\ id \notin DOMAIN rts'.assignments
                     /\ id \notin DOMAIN rts'.containerToUtil
                     /\ \A cpu \in TopologyCPUs \cup DOMAIN rts.cpuToUtil \cup DOMAIN rts'.cpuToUtil :
                           MapGet(rts'.cpuToUtil, cpu) =
                              MapGet(rts.cpuToUtil, cpu) - (IF cpu \in rt.set THEN rt.util ELSE 0)
                     /\ rts'.assignments = MapDel(rts.assignments, id)
                     /\ rts'.containerToUtil = MapDel(rts.containerToUtil, id)
                     /\ rts'.defaultCPUSet = rts.defaultCPUSet
       /\ AddCreated =>
            realTimePolicy_RemoveContainer(rts', last'.id) = [st |-> rts, err |-> "nil"]]_vars

\* A real-time container was removed while some CPU still carries the
\* utilisation of another.
C10_Witness ==
    /\ last.op = "RemoveContainer"
    /\ last.hadRt
    /\ last.err = "nil"
    /\ \E cpu \in DOMAIN rts.cpuToUtil : rts.cpuToUtil[cpu] > 0

\* Scenario 4: two CPUs at u = 0.1 go to {0, 2}, which then carry 0.2 and 0.1.
C11_Scenario ==
    \A order \in IterationOrders(0 .. 3) :
        LET res == realTimePolicy_AddContainer(ScenarioState, ScenarioRequest(10, 2), "c1", order)
        IN  /\ res.err = "nil"
            /\ res.st.assignments = [c \in {"c1"} |-> {0, 2}]
            /\ res.st.cpuToUtil[0] = Units(20)
            /\ res.st.cpuToUtil[2] = Units(10)

\* C11: an AddContainer that creates an assignment gives the container
\* cpuCount candidate CPUs (util + u < allocableRtUtil), and every CPU it
\* assigns carried no more utilisation before the call than any candidate
\* it left out; scenario 4 of the specification comes out as stated.
C11_WorstFit ==
    [][/\ C11_Scenario
       /\ AddCreated =>
            LET u    == ReqUtil(last'.req.period, last'.req.runtime)
                S    == rts'.assignments[last'.id]
                cand == Candidates(rts, u)
            IN  /\ S \subseteq cand
                /\ Cardinality(S) = last'.req.cpus
                /\ \A i \in S, j \in cand \ S :
                      rts.cpuToUtil[i] <= rts.cpuToUtil[j]]_vars

\* An AddContainer chose among candidates of different load: a candidate it
\* left out carries more than an assigned CPU carried before the call.
C11_Witness ==
    /\ last.op = "AddContainer"
    /\ last.err = "nil"
    /\ ~last.hadRt
    /\ last.id \in DOMAIN rts.containerToUtil
    /\ \E i \in rts.assignments[last.id], j \in DOMAIN rts.cpuToUtil \ rts.assignments[last.id] :
          /\ rts.cpuToUtil[j] + LastReqUtil < allocableRtUtil
          /\ rts.cpuToUtil[i] - LastReqUtil < rts.cpuToUtil[j]

\* The CPUs of S by ascending id.
RECURSIVE AscendingOrder(_)
AscendingOrder(S) ==
    IF S = {}
    THEN << >>
    ELSE LET lo == CHOOSE x \in S : \A y \in S : x <= y
         IN  << lo >> \o AscendingOrder(S \ {lo})

\* C12: placement is deterministic, candidates of equal headroom being taken
\* by ascending CPU id: every AddContainer ends in the state that worstFit
\* reaches when it visits the CPUs by ascending id.
C12_DeterministicPlacement ==
    [][last'.op = "AddContainer" =>
          rts' = realTimePolicy_AddContainer(rts, last'.req, last'.id,
                     AscendingOrder(DOMAIN rts.cpuToUtil)).st]_vars

\* C13: when the runtime call of AddContainer has failed, AddContainer
\* returns the runtime's error and leaves the container with neither CPU
\* set nor utilisation, the utilisation it had taken off its CPUs.
C13_Rollback ==
    [][\A t \in Threads :
          (mgr.pc[t] = "add_rollback" /\ mgr'.pc[t] # "add_rollback") =>
             LET id  == mgr.loc[t].id
                 had == GetRtCPUSetAndUtilOfContainer(rts, id)
             IN  /\ last'.op = "manager.AddContainer"
                 /\ last'.id = id
                 /\ last'.err = "runtime"
                 /\ id \notin DOMAIN rts'.assignments
                 /\ id \notin DOMAIN rts'.containerToUtil
                 /\ \A cpu \in DOMAIN rts.cpuToUtil :
                       rts'.cpuToUtil[cpu] =
                          IF had.ok /\ cpu \in had.set
                          THEN rts.cpuToUtil[cpu] - had.util
                          ELSE rts.cpuToUtil[cpu]
                 /\ Balanced(rts')]_vars

\* An AddContainer was rolled back while the other container kept its CPUs.
C13_Witness ==
    /\ last.op = "manager.AddContainer"
    /\ last.err = "runtime"
    /\ last.hadRt
    /\ last.id \notin DOMAIN rts.assignments
    /\ \E cpu \in DOMAIN rts.cpuToUtil : rts.cpuToUtil[cpu] > 0

\* C14: a thread that is calling the runtime (UpdateContainerResources, in
\* AddContainer or in reconcileState) does not hold the manager mutex, so
\* the mutex is free for the other threads, or held by one of them.
C14_RPCOutsideLock ==
    \A t \in Threads : mgr.pc[t] \in {"add_rpc", "rec_rpc"} => mgr.lock # t

\* While a caller's AddContainer is in its runtime call, the reconcile
\* goroutine is inside its own AddContainer, under the mutex.
C14_Witness ==
    /\ mgr.pc["t1"] = "add_rpc"
    /\ mgr.pc["rec"] = "add_policy"
    /\ mgr.lock = "rec"

\* The points where a thread reads or writes the manager's state next.
StateAccessPcs ==
    {"add_policy", "add_rollback", "remove_policy", "stale_sweep",
     "rec_getcpuset", "rec_getcpusetordefault"}

\* C15: every read and every write of the state by AddContainer,
\* RemoveContainer, removeStaleState and the body of reconcileState is made
\* with the manager mutex held.
C15_StateAccessUnderMutex ==
    \A t \in Threads : mgr.pc[t] \in StateAccessPcs => mgr.lock = t

\* The names of the init and regular containers of the pods of a list.
ContainerNames(pods) ==
    UNION {{pods[i].init[k] : k \in DOMAIN pods[i].init}
           \cup {pods[i].regular[k] : k \in DOMAIN pods[i].regular} : i \in DOMAIN pods}

\* The live set: the ids the statuses of the pods of a list resolve for
\* their init and regular containers.
LiveSet(pods) ==
    UNION {{IF n \in pods[i].stale THEN PreviousID(n) ELSE n :
               n \in ContainerNames(<< pods[i] >>) \cap pods[i].resolved} : i \in DOMAIN pods}

\* Some pod of the list has no status, or some container no id.
Incomplete(pods) ==
    \E i \in DOMAIN pods :
        \/ ~pods[i].hasStatus
        \/ \E k \in DOMAIN pods[i].init : pods[i].init[k] \notin pods[i].resolved
        \/ \E k \in DOMAIN pods[i].regular : pods[i].regular[k] \notin pods[i].resolved

\* C16: removeStaleState leaves the state as it is when the sources are not
\* ready, when there is no active pod, when a pod has no status and when an
\* init or regular container of a pod has no id.
C16_StaleSweepAborts ==
    [][(/\ last'.op = "removeStaleState"
        /\ \/ ~last'.ready
           \/ last'.pods = << >>
           \/ Incomplete(last'.pods))
          => rts' = rts]_vars

\* A sweep stopped at a container without an id while the state held the
\* entry of a container of no active pod.
C16_Witness ==
    /\ last.op = "removeStaleState"
    /\ last.ready
    /\ last.pods # << >>
    /\ \A i \in DOMAIN last.pods : last.pods[i].hasStatus
    /\ Incomplete(last.pods)
    /\ \E id \in DOMAIN rts.containerToUtil : id \notin ContainerNames(last.pods)

\* C17: a removeStaleState that does not stop leaves entries only for the
\* containers of the active pods, and leaves those as they were.
C17_StaleSweepRemoves ==
    [][(/\ last'.op = "removeStaleState"
        /\ last'.ready
        /\ last'.pods # << >>
        /\ ~Incomplete(last'.pods))
          => LET live == LiveSet(last'.pods)
             IN  /\ DOMAIN rts'.assignments \subseteq live
                 /\ DOMAIN rts'.containerToUtil \subseteq live
                 /\ \A id \in live :
                       /\ id \in DOMAIN rts.assignments =>
                             /\ id \in DOMAIN rts'.assignments
                             /\ rts'.assignments[id] = rts.assignments[id]
                       /\ id \in DOMAIN rts.containerToUtil =>
                             /\ id \in DOMAIN rts'.containerToUtil
                             /\ rts'.containerToUtil[id] = rts.containerToUtil[id]]_vars

\* A sweep removed one of two entries and kept the other.
C17_Witness ==
    /\ last.op = "removeStaleState"
    /\ last.ready
    /\ ~Incomplete(last.pods)
    /\ last.nAssigned = 2
    /\ Cardinality(DOMAIN rts.assignments) = 1
    /\ DOMAIN rts.assignments \subseteq LiveSet(last.pods)

\* The reconcile loop at a container that is not in the state: it is added
\* only if its pod runs and is not being deleted, and otherwise passed over
\* with the state as it is and nothing pushed to the runtime.
ReconcileAddsOnlyRunning ==
    LET item == Head(mgr.work)
        id   == mgr.loc["rec"].id
    IN  (mgr.pc["rec"] = "rec_getcpuset" /\ mgr'.pc["rec"] # "rec_getcpuset"
            /\ id \notin DOMAIN rts.assignments) =>
          IF item.running /\ ~item.deleted
          THEN mgr'.pc["rec"] = "add_lock" /\ mgr'.loc["rec"].id = id
          ELSE /\ mgr'.pc["rec"] = "rec_loop"
               /\ mgr'.work = Tail(mgr.work)
               /\ rts' = rts
               /\ last'.op # "UpdateContainerResources"

\* The runtime call of the reconcile loop hands over the CPU set the loop
\* has read for the container.
ReconcilePushesWhatItRead ==
    (mgr.pc["rec"] = "rec_rpc" /\ mgr'.pc["rec"] # "rec_rpc") =>
        /\ last'.op = "UpdateContainerResources"
        /\ last'.id = mgr.loc["rec"].id
        /\ last'.set = mgr.loc["rec"].cpus

PositiveRecognised(list) ==
    {name \in DOMAIN list :
        /\ name \in {"cpu", "memory", "rt-period", "rt-runtime", "rt-cpu"}
        /\ list[name] > 0}

\* The sum, over the containers of a sequence, of the positive quantity of
\* a resource in their requests (kind "requests") or limits ("limits").
RECURSIVE Aggregate(_, _, _)
Aggregate(containers, kind, name) ==
    IF containers = << >>
    THEN 0
    ELSE (IF name \in PositiveRecognised(Head(containers)[kind])
          THEN Head(containers)[kind][name]
          ELSE 0)
         + Aggregate(Tail(containers), kind, name)

\* The class the decision rule of the specification gives a pod.
QoSRule(pod) ==
    LET all  == pod.containers \o pod.initContainers
        Rk   == UNION {PositiveRecognised(all[i].requests) : i \in DOMAIN all}
        Lk   == UNION {PositiveRecognised(all[i].limits) : i \in DOMAIN all}
        LimitsComplete ==
            \A i \in DOMAIN all :
                \/ {"cpu", "memory"} \subseteq PositiveRecognised(all[i].limits)
                \/ "rt-runtime" \in PositiveRecognised(all[i].limits)
    IN  IF Rk = {} /\ Lk = {}
        THEN "BestEffort"
        ELSE IF /\ LimitsComplete
                /\ Rk = Lk
                /\ \A name \in Rk :
                      Aggregate(all, "requests", name) = Aggregate(all, "limits", name)
             THEN "Guaranteed"
             ELSE "Burstable"

C20_ScoreBounds ==
    pure.op = "balancedResourceScorer" =>
        (pure.res >= 0 /\ pure.res <= MaxNodeScore)

\* The fractions that enter the score of the call held by pure: one per
\* key of requested, and the volume fraction when volumes are included, the
\* feature gate is enabled and allocatableVolumes > 0.
ScoreFractions(arg) ==
    {fractionOfCapacity(arg.requested[name], MapGet(arg.allocable, name)) :
        name \in DOMAIN arg.requested}
    \cup (IF arg.vol.include /\ arg.vol.gate /\ arg.vol.allocatable > 0
          THEN {[num |-> arg.vol.requested, den |-> arg.vol.allocatable]}
          ELSE {})

\* C21: when one of the fractions entering the score (a resource fraction,
\* the RT utilisation fraction or the volume fraction) is 1 or more,
\* balancedResourceScorer returns 0, whatever the other fractions are.
C21_OverbookedScoresZero ==
    (/\ pure.op = "balancedResourceScorer"
     /\ \E f \in ScoreFractions(pure.arg) : f.num >= f.den)
        => pure.res = 0

\* The fractions entering the score of a call, as a sequence: cpu, memory,
\* the RT utilisation when requested, the volume fraction when it enters.
ScoreFractionSeq(arg) ==
    LET of(name) == fractionOfCapacity(arg.requested[name], MapGet(arg.allocable, name))
    IN  << of("cpu"), of("memory") >>
        \o (IF "rt-utilization" \in DOMAIN arg.requested
            THEN << of("rt-utilization") >>
            ELSE << >>)
        \o (IF arg.vol.include /\ arg.vol.gate /\ arg.vol.allocatable > 0
            THEN << [num |-> arg.vol.requested, den |-> arg.vol.allocatable] >>
            ELSE << >>)

NoFractionAtOne(arg) ==
    \A f \in ScoreFractions(arg) : f.num < f.den

\* The exact value (1 - |a - b|) * 100 of two fractions, and
\* (1 - populationVariance) * 100 of three or more, as a quotient.  The
\* population variance of n values a[i] is taken as
\* (n * sum a[i]^2 - (sum a[i])^2) / n^2.
ExactScoreOf(fs) ==
    LET n  == Len(fs)
        D  == CommonDen(fs)
        t  == [i \in 1 .. n |-> fs[i].num * (D \div fs[i].den)]
    IN  IF n = 2
        THEN [num |-> 100 * (D - Abs(t[1] - t[2])), den |-> D]
        ELSE LET sq == SumSeq([i \in 1 .. n |-> t[i] * t[i]])
                 S  == SumSeq(t)
             IN  [num |-> 100 * (n * n * D * D - (n * sq - S * S)),
                  den |-> n * n * D * D]

ExactScore(arg) == ExactScoreOf(ScoreFractionSeq(arg))

\* C22, as stated: with no fraction at 1 or more, the score is the exact
\* value rounded to the nearest integer.
C22_ScoreRounded ==
    (pure.op = "balancedResourceScorer" /\ NoFractionAtOne(pure.arg)) =>
        LET x == ExactScore(pure.arg)
        IN  2 * Abs(x.num - pure.res * x.den) <= x.den

\* C22, amended: with no fraction at 1 or more, the score is the exact
\* value (1 - |a - b|) * 100 of two fractions, or
\* (1 - populationVariance) * 100 of three or more, truncated toward zero
\* to an integer, not rounded to the nearest one.
C22_ScoreTruncated ==
    (pure.op = "balancedResourceScorer" /\ NoFractionAtOne(pure.arg)) =>
        LET x == ExactScore(pure.arg)
        IN  /\ pure.res * x.den <= x.num
            /\ x.num < (pure.res + 1) * x.den

\* Three fractions below 1 whose exact value is no integer and lies in the
\* upper half between two integers: truncation gives the lower one.
C22_Witness ==
    /\ pure.op = "balancedResourceScorer"
    /\ NoFractionAtOne(pure.arg)
    /\ Len(ScoreFractionSeq(pure.arg)) >= 3
    /\ LET x == ExactScore(pure.arg)
       IN  2 * (x.num - pure.res * x.den) > x.den

\* The names of the steps a hook made, in order.
StepNames(h) == [k \in DOMAIN h.steps |-> h.steps[k].step]

Made(h, name) == \E k \in DOMAIN h.steps : h.steps[k].step = name

BandwidthFiles ==
    {PodPeriodFile, PodRuntimeFile, ContainerPeriodFile, ContainerRuntimeFile}

\* C23: PostStopContainer calls cpuManager.RemoveContainer and, when the
\* topology manager is enabled, topologyManager.RemoveContainer whatever the
\* first call answered, and returns no error to its caller.
C23_PostStopBestEffort ==
    hook.op = "PostStopContainer" =>
        /\ hook.err = "nil"
        /\ hook.cpuGate => Made(hook, "cpuManager.RemoveContainer")
        /\ hook.topoGate => Made(hook, "topologyManager.RemoveContainer")

\* C24: PreStartContainer writes bandwidth files if and only if the
\* container requests a cpu-rt-runtime that is not zero and the manager
\* assigned it a CPU set that is not empty; for an empty assigned CPU set it
\* writes no file, period or runtime.
C24_WritesIffRuntimeAndCpus ==
    (hook.op = "PreStartContainer" /\ hook.err # "panic") =>
        LET got   == State_GetCPUSet(rts, hook.id)
            wrote == \E f \in BandwidthFiles : Made(hook, f)
        IN  wrote <=> (hook.req.runtime # 0 /\ got.ok /\ got.set # {})

\* The order of the steps of PreStartContainer.
PreStartOrder ==
    << "cpuManager.AddContainer", PodPeriodFile, PodRuntimeFile,
       ContainerPeriodFile, ContainerRuntimeFile, "topologyManager.AddContainer" >>

PositionIn(seq, name) == CHOOSE k \in DOMAIN seq : seq[k] = name

\* C25: in PreStartContainer cpuManager.AddContainer comes before every
\* write, the writes come in the order pod period, pod runtime, container
\* period, container runtime, and topologyManager.AddContainer comes last;
\* the first step that fails is the last step made and its error is the
\* one returned; with no failure and a real-time container on a CPU set
\* that is not empty, every step is made.
C25_PreStartOrder ==
    hook.op = "PreStartContainer" =>
        LET names == StepNames(hook)
            got   == State_GetCPUSet(rts, hook.id)
        IN  /\ \A k \in DOMAIN names : \E p \in DOMAIN PreStartOrder : PreStartOrder[p] = names[k]
            /\ \A j, k \in DOMAIN names :
                  j < k => PositionIn(PreStartOrder, names[j]) < PositionIn(PreStartOrder, names[k])
            /\ \A k \in DOMAIN names : hook.steps[k].err # "nil" => k = Len(names)
            /\ hook.err # "panic" =>
                  hook.err = (IF names = << >> THEN "nil" ELSE hook.steps[Len(names)].err)
            /\ (hook.err = "nil" /\ hook.cpuGate) => Made(hook, "cpuManager.AddContainer")
            /\ (hook.err = "nil" /\ hook.topoGate) => Made(hook, "topologyManager.AddContainer")
            /\ (hook.err = "nil" /\ hook.req.runtime # 0 /\ got.ok /\ got.set # {})
                  => \A f \in BandwidthFiles : Made(hook, f)

\* The write of the container's period file fails after AddContainer and
\* the two writes of the pod's files: the hook returns that error and
\* neither writes the container's runtime file nor calls the topology
\* manager, which is enabled.
C25_Witness ==
    /\ hook.op = "PreStartContainer"
    /\ hook.topoGate
    /\ hook.err = "io"
    /\ StepNames(hook) = << "cpuManager.AddContainer", PodPeriodFile, PodRuntimeFile,
                            ContainerPeriodFile >>

\* C26: a set with a CPU set that is not a subset of the default CPU set
\* fails with InvalidAssignment and records nothing: assignments,
\* containerToUtil and cpuToUtil stay as they were.
C26_SetOutsideDefaultFails ==
    [][(last'.op = "Set" /\ ~(last'.set \subseteq rts.defaultCPUSet)) =>
          (last'.err = "InvalidAssignment" /\ rts' = rts)]_vars

\* C27: Delete of a container id that has no assignment returns normally
\* and leaves assignments, containerToUtil and cpuToUtil as they were.
C27_DeleteUnknownIsNoOp ==
    [][(last'.op = "Delete" /\ last'.id \notin DOMAIN rts.assignments) =>
          (last'.err = "nil" /\ rts' = rts)]_vars

\* C28: SetDefaultCPUSet(s) leaves cpuToUtil with an entry of value 0 for
\* each CPU of s and no other entry, and leaves every container's assigned
\* CPU set and recorded utilisation as they were.
C28_SetDefaultCPUSetFrame ==
    [][last'.op = "SetDefaultCPUSet" =>
          /\ rts'.cpuToUtil = [cpu \in last'.set |-> 0]
          /\ rts'.assignments = rts.assignments
          /\ rts'.containerToUtil = rts.containerToUtil]_vars

\* SetDefaultCPUSet has run on a state that holds a real-time container on
\* a CPU the new default set has not: the container keeps its CPU set and
\* its utilisation, cpuToUtil has the new set's CPUs only, all at 0.
C28_Witness ==
    /\ last.op = "SetDefaultCPUSet"
    /\ last.set # {}
    /\ \E c \in DOMAIN rts.containerToUtil :
          /\ c \in DOMAIN rts.assignments
          /\ rts.containerToUtil[c] > 0
          /\ ~(rts.assignments[c] \subseteq last.set)
    /\ DOMAIN rts.cpuToUtil = last.set
    /\ \A cpu \in last.set : rts.cpuToUtil[cpu] = 0

\* C29: in every state the real-time policy reaches, every recorded
\* utilisation of a container is at least 0 and below 1.
C29_ContainerUtilBelowOne ==
    started =>
        \A c \in DOMAIN rts.containerToUtil :
            rts.containerToUtil[c] >= 0 /\ rts.containerToUtil[c] < UtilScale

\* C30: whatever sequence of set, Delete and SetDefaultCPUSet has run, no
\* CPU's summed utilisation is below 0.
C30_CpuUtilNotNegative ==
    \A cpu \in DOMAIN rts.cpuToUtil : rts.cpuToUtil[cpu] >= 0

\* C31: through the real-time policy, every container with a real-time
\* assignment holds exactly as many distinct CPUs as the rt-cpu value it
\* asked for, all of them in defaultCpuSet: the AddContainer that creates
\* the assignment commits a set of exactly that size, no later call of the
\* policy changes the set while the assignment lives, and once the policy has
\* started every real-time assignment lies inside the default CPU set.
C31_ExactlyCpuCountInsideDefault ==
    [][/\ AddCreated =>
             Cardinality(rts'.assignments[last'.id]) = last'.req.cpus
       /\ \A c \in Containers :
             LET before == GetRtCPUSetAndUtilOfContainer(rts, c)
                 after == GetRtCPUSetAndUtilOfContainer(rts', c)
             IN  /\ (started /\ before.ok /\ after.ok) => after.set = before.set
                 /\ (started' /\ after.ok) => after.set \subseteq rts'.defaultCPUSet]_vars

\* An AddContainer has just given a container the largest number of CPUs a
\* request may ask for, while the other container holds an assignment too.
C31_Witness ==
    /\ last.op = "AddContainer"
    /\ last.err = "nil"
    /\ ~last.hadRt
    /\ last.req.cpus = MaxReqCpus
    /\ GetRtCPUSetAndUtilOfContainer(rts, last.id).ok
    /\ Cardinality(rts.assignments[last.id]) = MaxReqCpus
    /\ \E c \in Containers \ {last.id} :
          /\ GetRtCPUSetAndUtilOfContainer(rts, c).ok
          /\ rts.assignments[c] # {}

\* C32: assignment stability. While a container keeps its real-time
\* assignment, from the AddContainer that created it to the call that
\* destroys it, its CPU set and its utilisation never change; an AddContainer
\* or RemoveContainer for one container id leaves the CPU set and the
\* utilisation of every other container as they were; and an assignment
\* disappears only through a RemoveContainer of its own id (or through the
\* Start that resets the state).
C32_AssignmentStability ==
    [][\A c \in Containers :
          LET before == GetRtCPUSetAndUtilOfContainer(rts, c)
              after == GetRtCPUSetAndUtilOfContainer(rts', c)
          IN  /\ (before.ok /\ after.ok) =>
                    (after.set = before.set /\ after.util = before.util)
              /\ (last'.op \in {"AddContainer", "RemoveContainer"} /\ last'.id # c) =>
                    /\ after = before
                    /\ State_GetCPUSet(rts', c) = State_GetCPUSet(rts, c)
              /\ (before.ok /\ ~after.ok) =>
                    \/ last'.op = "RemoveContainer" /\ last'.id = c
                    \/ last'.op = "Start"]_vars

\* A container holding CPUs has just seen an AddContainer of its own id
\* answered with success, while the other container, added in between, holds
\* CPUs as well.
C32_Witness ==
    /\ last.op = "AddContainer"
    /\ last.err = "nil"
    /\ last.hadRt
    /\ ~last.again
    /\ ReqUtil(last.req.period, last.req.runtime) > 0
    /\ rts.assignments[last.id] # {}
    /\ \E c \in Containers \ {last.id} :
          /\ GetRtCPUSetAndUtilOfContainer(rts, c).ok
          /\ rts.assignments[c] # {}
          /\ rts.assignments[c] # rts.assignments[last.id]

\* The CPUs of the last placement call that can take the request.
FitCandidates ==
    {cpu \in DOMAIN pure.arg.cpuToUtil :
        pure.arg.cpuToUtil[cpu] + pure.arg.reqUtil < allocableRtUtil}

\* A placement succeeded when it returned as many CPUs as were asked for,
\* the test AddContainer makes on the result.
FitSucceeded(cpus) == Len(cpus) >= pure.arg.reqCpus

\* A successful placement returned exactly reqCpus distinct candidates.
FitExact(cpus) ==
    FitSucceeded(cpus) =>
        /\ Len(cpus) = pure.arg.reqCpus
        /\ Cardinality(NewCPUSet(cpus)) = Len(cpus)
        /\ NewCPUSet(cpus) \subseteq FitCandidates

\* C33: firstFit, worstFit and bestFit differ only in the order of
\* preference: on the same utilisation map, u and cpuCount they succeed
\* together or fail together; on success each returns exactly cpuCount
\* distinct CPUs, all with util + u < allocableRtUtil; and bestFit returns
\* candidates of the smallest headroom.
C33_FitVariantsAgree ==
    pure.op = "fit" =>
        /\ FitSucceeded(pure.res.firstFit) = FitSucceeded(pure.res.worstFit)
        /\ FitSucceeded(pure.res.worstFit) = FitSucceeded(pure.res.bestFit)
        /\ FitExact(pure.res.firstFit)
        /\ FitExact(pure.res.worstFit)
        /\ FitExact(pure.res.bestFit)
        /\ \A c \in NewCPUSet(pure.res.bestFit) :
           \A d \in FitCandidates \ NewCPUSet(pure.res.bestFit) :
              pure.arg.cpuToUtil[c] >= pure.arg.cpuToUtil[d]

\* C34: no erroneous reaping. Whatever AddContainer calls ran before and
\* around it, a removeStaleState never removes the state entry of a container
\* that belongs to one of the active pods, an entry that AddContainer made
\* for a restarted container whose new id the status does not report yet
\* included.  (A container's id as it runs now is written like its name, so
\* ContainerNames gives the containers that belong to the pods.)
C34_NoErroneousReaping ==
    [][(last'.op = "removeStaleState" /\ last'.ready) =>
          \A c \in DOMAIN rts.assignments \cap ContainerNames(last'.pods) :
              c \in DOMAIN rts'.assignments]_vars

\* Where a thread stands between m.Lock() and the m.Unlock() that follows,
\* and where it stands in front of an m.Lock().
MutexHeldPcs == {"add_policy", "add_rollback", "remove_policy", "stale_sweep"}
MutexWaitPcs == {"add_lock", "add_rollback_lock", "remove_lock", "stale_lock"}

\* C35: the mutex is released on every path of AddContainer, RemoveContainer
\* and removeStaleState: only a thread inside a section under the mutex
\* holds it, and the step that ends the section leaves it free; no thread
\* stands in front of m.Lock() while it holds the mutex, reconcileState
\* calling removeStaleState and AddContainer included; and with a runtime
\* that answers, every call and every tick a thread has begun comes to its
\* end.
C35_MutexReleasedAndCallsEnd ==
    /\ [](/\ mgr.lock \in {"free"} \cup Threads
          /\ \A t \in Threads :
                /\ mgr.lock = t => mgr.pc[t] \in MutexHeldPcs
                /\ mgr.pc[t] \in MutexWaitPcs => mgr.lock # t)
    /\ [][\A t \in Threads :
             (mgr.lock = t /\ mgr'.pc[t] # mgr.pc[t]) => mgr'.lock = "free"]_vars
    /\ \A t \in Threads : (mgr.pc[t] # "idle") ~> (mgr.pc[t] = "idle")

\* A caller holds the mutex for the rollback of its AddContainer while the
\* reconcile goroutine waits for the mutex.
C35_Witness ==
    /\ mgr.lock = "t1"
    /\ mgr.pc["t1"] = "add_rollback"
    /\ mgr.pc["rec"] \in MutexWaitPcs

\* The requests or limits of one container that GetPodQOS counts: the
\* recognised names with a quantity above zero, each with its quantity.
CountedQuantities(list) == [name \in PositiveRecognised(list) |-> list[name]]

\* C36: GetPodQOS returns Guaranteed only for a pod of which every
\* container, regular or init, has its positive recognised requests equal to
\* its positive recognised limits, key by key.
C36_GuaranteedPerContainer ==
    (pure.op = "GetPodQOS" /\ pure.res = "Guaranteed") =>
        \A k \in DOMAIN (pure.arg.containers \o pure.arg.initContainers) :
            LET container == (pure.arg.containers \o pure.arg.initContainers)[k]
            IN  CountedQuantities(container.requests) = CountedQuantities(container.limits)

\* C37: reserved CPUs are not eligible for real-time placement. However the
\* policy was built, once it has started the default CPU set, and with it
\* the CPUs a placement chooses from, is the topology's CPUs without the
\* reserved ones, and no real-time assignment holds a reserved CPU.
C37_ReservedNotAssigned ==
    started =>
        \A reservedCPUs \in ReservedCPUsArgs :
            LET p == NewRealTimePolicy(NumReservedCPUs, reservedCPUs)
                reserved == Reserved(NumReservedCPUs, reservedCPUs)
            IN  p.err = "nil" =>
                   /\ rts.defaultCPUSet = TopologyCPUs \ reserved
                   /\ DOMAIN CpuToUtilMap(rts) = TopologyCPUs \ reserved
                   /\ \A c \in DOMAIN rts.containerToUtil :
                         rts.assignments[c] \cap reserved = {}

\* The fractions the statement lets into the score of a PriorityMap call, in
\* the order cpu, memory, RT utilisation, volumes: for each resource of the
\* weight map the requests of the pods on the node plus the pod's own over
\* the node's allocatable value; the RT utilisation fraction when the pod's
\* own RT utilisation is not zero; the volume fraction when volume balancing
\* is on (the feature gate is enabled and the node has transient information)
\* and allocatableVolumes > 0.
ExpectedFractions(arg) ==
    LET node == arg.nodeInfo
        of(name, own) == fractionOfCapacity(node.nonZeroRequest[name] + own,
                                            node.allocatable[name])
    IN  << of("cpu", arg.pod.request["cpu"]), of("memory", arg.pod.request["memory"]) >>
        \o (IF arg.pod.rtUtil # 0
            THEN << of("rt-utilization", arg.pod.rtUtil) >>
            ELSE << >>)
        \o (IF /\ arg.gateEnabled
               /\ node.transientInfo.present
               /\ node.transientInfo.allocatableVolumesCount > 0
            THEN << [num |-> node.transientInfo.requestedVolumes,
                     den |-> node.transientInfo.allocatableVolumesCount] >>
            ELSE << >>)

\* C38: the fractions that enter the balanced score of a PriorityMap call
\* are exactly those: one per resource of the weight map, the RT utilisation
\* fraction iff the pod's own RT utilisation is not zero, the volume fraction
\* iff volume balancing is enabled and allocatableVolumes > 0, so that with
\* every one of them below 1 the score is the balance of exactly these
\* fractions; and a node whose RT capacity cannot hold the pod's RT
\* utilisation scores 0.
C38_FractionsOfPriorityMap ==
    pure.op = "PriorityMap" =>
        /\ ScoreFractionSeq(pure.res) = ExpectedFractions(pure.arg)
        /\ (\A i \in DOMAIN ExpectedFractions(pure.arg) :
               ExpectedFractions(pure.arg)[i].num < ExpectedFractions(pure.arg)[i].den)
              => LET x == ExactScoreOf(ExpectedFractions(pure.arg))
                 IN  /\ pure.res.score * x.den <= x.num
                     /\ x.num < (pure.res.score + 1) * x.den
        /\ (/\ pure.arg.pod.rtUtil # 0
            /\ pure.arg.nodeInfo.nonZeroRequest["rt-utilization"] + pure.arg.pod.rtUtil
                  > pure.arg.nodeInfo.allocatable["rt-utilization"])
              => pure.res.score = 0

\* A pod with an RT utilisation is scored on a node that can hold it and has
\* volumes to balance: four fractions enter, and the score is not 0.
C38_Witness ==
    /\ pure.op = "PriorityMap"
    /\ pure.arg.pod.rtUtil # 0
    /\ Len(ExpectedFractions(pure.arg)) = 4
    /\ pure.res.score > 0
    /\ pure.res.score < MaxNodeScore

\* A call of the runtime fails.
RuntimeRPCFails ==
    \/ \E t \in Threads : AddContainer_RPC(t, FALSE)
    \/ Reconcile_RPC(FALSE)

\* c1 has no assignment because the AddContainer that just returned rolled
\* it back after a failed call of the runtime.
RolledBack ==
    /\ last.op = "manager.AddContainer"
    /\ last.id = "c1"
    /\ last.err = "runtime"
    /\ ~GetRtCPUSetAndUtilOfContainer(rts, "c1").ok

\* c1 has an assignment, and its CPU set has just been pushed to the
\* runtime: by an AddContainer that returned nil, or by the reconcile loop.
AssignedAndPushed ==
    /\ GetRtCPUSetAndUtilOfContainer(rts, "c1").ok
    /\ rts.assignments["c1"] # {}
    /\ last.id = "c1"
    /\ last.err = "nil"
    /\ \/ last.op = "manager.AddContainer"
       \/ last.op = "UpdateContainerResources" /\ last.set = rts.assignments["c1"]

\* C39: eventual convergence after a rollback. With the reconcile loop
\* scheduled fairly, a container of an active pod that has lost its
\* assignment to the rollback of a failed runtime call, and whose request
\* fits, has an assignment again and its CPU set pushed to the runtime at
\* some later point, provided the calls of the runtime succeed from some
\* point on; AddContainer itself calls the runtime once, and after a failure
\* goes to the rollback and returns the error.
C39_ConvergesAfterRollback ==
    /\ ([]<><<RuntimeRPCFails>>_vars) \/ (RolledBack ~> AssignedAndPushed)
    /\ [][\A t \in Threads :
             /\ (mgr.pc[t] = "add_rpc" /\ mgr'.pc[t] # "add_rpc") =>
                   mgr'.pc[t] \in {AfterAdd(t), "add_rollback_lock"}
             /\ (mgr.pc[t] = "add_rollback_lock" /\ mgr'.pc[t] # "add_rollback_lock") =>
                   mgr'.pc[t] = "add_rollback"
             /\ (mgr.pc[t] = "add_rollback" /\ mgr'.pc[t] # "add_rollback") =>
                   (mgr'.pc[t] = AfterAdd(t) /\ last'.err = "runtime")]_vars

\* The reconcile loop called AddContainer for c1, which it had found
\* missing from the state, and the call returned nil with c1 assigned.
C39_Witness ==
    /\ mgr.pc["rec"] = "rec_afterAdd"
    /\ AssignedAndPushed
    /\ last.op = "manager.AddContainer"

=============================================================================
